---- MODULE Spec2Model ----
(***************************************************************************)
(* Period GAP calculation engine of vti_gap_analysis.                      *)
(*                                                                         *)
(* The model follows utils/period_gap: convert_to_period and the period    *)
(* key parsers (period_helpers.py), PeriodBasedGAPProcessor                *)
(* (period_processor.py), calculate_gap_with_carry_forward                 *)
(* (gap_calculator.py) and the categorizers (shortage_analyzer.py).        *)
(*                                                                         *)
(* Text is a sequence of one-character strings, so that formatting a       *)
(* period key and parsing it back are two different computations.          *)
(* Quantities are integers.                                                *)
(***************************************************************************)
EXTENDS Integers, Sequences, FiniteSets, TLC

\* ------------------------------------------------------------------ text

\* The characters of the keys, in code-point order.
Alphabet ==
    << " ", "+", "-", "0", "1", "2", "3", "4", "5", "6", "7", "8", "9", ":",
       "A", "B", "C", "D", "E", "F", "G", "H", "I", "J", "K", "L", "M",
       "N", "O", "P", "Q", "R", "S", "T", "U", "V", "W", "X", "Y", "Z",
       "a", "b", "c", "d", "e", "f", "g", "h", "i", "j", "k", "l", "m",
       "n", "o", "p", "q", "r", "s", "t", "u", "v", "w", "x", "y", "z" >>

\* Code-point rank of a character.
Ord(c) == CHOOSE i \in 1..Len(Alphabet) : Alphabet[i] = c

Digits == << "0", "1", "2", "3", "4", "5", "6", "7", "8", "9" >>

IsDigit(c) == \E i \in 1..10 : Digits[i] = c

DigitVal(c) == (CHOOSE i \in 1..10 : Digits[i] = c) - 1

\* str(n) for n >= 0: decimal digits, no padding.
RECURSIVE IntToStr(_)
IntToStr(n) ==
    IF n < 10 THEN << Digits[n + 1] >>
    ELSE IntToStr(n \div 10) \o << Digits[(n % 10) + 1] >>

\* Zero padding to a width (strftime's %Y, %m, %d).
RECURSIVE PadLeft(_, _)
PadLeft(s, w) == IF Len(s) >= w THEN s ELSE PadLeft(<< "0" >> \o s, w)

\* str.strip() over the blank of the alphabet.
RECURSIVE Strip(_)
Strip(s) ==
    IF s = << >> THEN s
    ELSE IF Head(s) = " " THEN Strip(Tail(s))
    ELSE IF s[Len(s)] = " " THEN Strip(SubSeq(s, 1, Len(s) - 1))
    ELSE s

\* int(s) of a run of decimal digits; -1 stands for ValueError.
RECURSIVE DigitsToInt(_, _)
DigitsToInt(s, acc) ==
    IF s = << >> THEN acc
    ELSE DigitsToInt(Tail(s), acc * 10 + DigitVal(Head(s)))

StrToInt(s) ==
    IF s # << >> /\ \A i \in 1..Len(s) : IsDigit(s[i])
    THEN DigitsToInt(s, 0)
    ELSE -1

\* int(s) as Python reads it: an optional sign and a run of decimal digits
\* (s is stripped by the caller); ok = FALSE stands for ValueError.
ParseInt(s) ==
    LET signed == s # << >> /\ Head(s) \in {"+", "-"}
        body == IF signed THEN Tail(s) ELSE s
    IN  IF body # << >> /\ \A i \in 1..Len(body) : IsDigit(body[i])
        THEN [ok |-> TRUE,
              val |-> IF signed /\ Head(s) = "-" THEN 0 - DigitsToInt(body, 0)
                      ELSE DigitsToInt(body, 0)]
        ELSE [ok |-> FALSE, val |-> 0]

StartsWith(s, pre) == Len(s) >= Len(pre) /\ SubSeq(s, 1, Len(pre)) = pre

\* Positions where sep occurs in s.
Occurrences(s, sep) ==
    { i \in 1..(Len(s) - Len(sep) + 1) : SubSeq(s, i, i + Len(sep) - 1) = sep }

\* s.split(sep): the parts between the occurrences of sep, found from the
\* left without overlap.
RECURSIVE Split(_, _)
Split(s, sep) ==
    IF Occurrences(s, sep) = {} THEN << s >>
    ELSE LET at == CHOOSE i \in Occurrences(s, sep) :
                      \A j \in Occurrences(s, sep) : i <= j
         IN  << SubSeq(s, 1, at - 1) >>
             \o Split(SubSeq(s, at + Len(sep), Len(s)), sep)

\* s.replace(old, ""): s without the occurrences of old.
RECURSIVE Remove(_, _)
Remove(s, old) ==
    IF Occurrences(s, old) = {} THEN s
    ELSE LET at == CHOOSE i \in Occurrences(s, old) :
                      \A j \in Occurrences(s, old) : i <= j
         IN  SubSeq(s, 1, at - 1) \o Remove(SubSeq(s, at + Len(old), Len(s)), old)

\* s < t as Python compares str: by code point, a proper prefix first.
RECURSIVE TextLess(_, _)
TextLess(s, t) ==
    IF t = << >> THEN FALSE
    ELSE IF s = << >> THEN TRUE
    ELSE IF Head(s) # Head(t) THEN Ord(Head(s)) < Ord(Head(t))
    ELSE TextLess(Tail(s), Tail(t))

Max0(x) == IF x > 0 THEN x ELSE 0

\* -------------------------------------------------------------- calendar

NaT == [y |-> 0, m |-> 0, d |-> 0]

IsLeap(y) == (y % 4 = 0) /\ ((y % 100 # 0) \/ (y % 400 = 0))

DaysInMonth(y, m) ==
    IF m = 2 THEN (IF IsLeap(y) THEN 29 ELSE 28)
    ELSE IF m \in {4, 6, 9, 11} THEN 30 ELSE 31

RECURSIVE DaysBeforeMonth(_, _)
DaysBeforeMonth(y, m) ==
    IF m = 1 THEN 0 ELSE DaysBeforeMonth(y, m - 1) + DaysInMonth(y, m - 1)

\* date.toordinal(): 0001-01-01 is day 1.
ToOrdinal(y, m, d) ==
    LET py == y - 1
    IN  py * 365 + (py \div 4) - (py \div 100) + (py \div 400)
        + DaysBeforeMonth(y, m) + d

\* Ordinal of the Monday that starts ISO week 1 of a year.
IsoWeek1Monday(y) ==
    LET firstday == ToOrdinal(y, 1, 1)
        firstweekday == (firstday + 6) % 7
        monday == firstday - firstweekday
    IN  IF firstweekday > 3 THEN monday + 7 ELSE monday

\* A bug to compare with: the ISO week number next to the calendar year.
IsoCalendarOfYear(dt) ==
    LET today == ToOrdinal(dt.y, dt.m, dt.d)
        w0 == (today - IsoWeek1Monday(dt.y)) \div 7
        day == (today - IsoWeek1Monday(dt.y)) % 7
    IN  IF w0 < 0
        THEN << dt.y, ((today - IsoWeek1Monday(dt.y - 1)) \div 7) + 1, day + 1 >>
        ELSE IF w0 >= 52 /\ today >= IsoWeek1Monday(dt.y + 1)
        THEN << dt.y, 1, day + 1 >>
        ELSE << dt.y, w0 + 1, day + 1 >>

\* date.isocalendar(): <<iso_year, week_number, weekday>>.
IsoCalendar(dt) ==
    LET today == ToOrdinal(dt.y, dt.m, dt.d)
        w0 == (today - IsoWeek1Monday(dt.y)) \div 7
        day == (today - IsoWeek1Monday(dt.y)) % 7
    IN  IF w0 < 0
        THEN << dt.y - 1, ((today - IsoWeek1Monday(dt.y - 1)) \div 7) + 1, day + 1 >>
        ELSE IF w0 >= 52 /\ today >= IsoWeek1Monday(dt.y + 1)
        THEN << dt.y + 1, 1, day + 1 >>
        ELSE << dt.y, w0 + 1, day + 1 >>

MonthAbbr ==
    << << "J", "a", "n" >>, << "F", "e", "b" >>, << "M", "a", "r" >>,
       << "A", "p", "r" >>, << "M", "a", "y" >>, << "J", "u", "n" >>,
       << "J", "u", "l" >>, << "A", "u", "g" >>, << "S", "e", "p" >>,
       << "O", "c", "t" >>, << "N", "o", "v" >>, << "D", "e", "c" >> >>

\* pd.Timestamp.max (2262-04-11) as an ordinal: the parsers' sentinel.
TimestampMax == ToOrdinal(2262, 4, 11)

\* The last day pd.Timestamp cannot hold (Timestamp.min is 1677-09-21
\* 00:12:43): to_datetime of an earlier day is out of bounds.
TimestampMin == ToOrdinal(1677, 9, 21)

\* A day pd.Timestamp can hold.
InBounds(ordinal) == TimestampMin < ordinal /\ ordinal <= TimestampMax

\* str(Timestamp) of a day: the time of day after the date.
Midnight == << " ", "0", "0", ":", "0", "0", ":", "0", "0" >>

\* The week sentinel of parse_week_period.
WeekSentinel == << 9999, 99 >>

WeekPrefix == << "W", "e", "e", "k", " " >>

WeekSep == << " ", "-", " " >>

\* The period key of a row without one (None / NaN).
NoPeriod == << >>

\* ------------------------------------------------------- period_helpers

convert_to_period(date_value, ptype) ==
    IF date_value = NaT THEN NoPeriod
    ELSE IF ptype = "Daily"
    THEN PadLeft(IntToStr(date_value.y), 4) \o << "-" >>
         \o PadLeft(IntToStr(date_value.m), 2) \o << "-" >>
         \o PadLeft(IntToStr(date_value.d), 2)
    ELSE IF ptype = "Weekly"
    THEN LET iso == IsoCalendar(date_value)
         IN  WeekPrefix \o IntToStr(iso[2]) \o WeekSep \o IntToStr(iso[1])
    ELSE IF ptype = "Monthly"
    THEN MonthAbbr[date_value.m] \o << " " >> \o PadLeft(IntToStr(date_value.y), 4)
    ELSE PadLeft(IntToStr(date_value.y), 4) \o << "-" >>
         \o PadLeft(IntToStr(date_value.m), 2) \o << "-" >>
         \o PadLeft(IntToStr(date_value.d), 2) \o Midnight

parse_week_period(period_str) ==
    IF period_str = NoPeriod THEN WeekSentinel
    ELSE
      LET s == Strip(period_str)
          parts == Split(s, WeekSep)
      IN  IF Occurrences(s, WeekSep) = {} THEN WeekSentinel
          ELSE IF Len(parts) # 2 \/ ~StartsWith(parts[1], WeekPrefix)
          THEN WeekSentinel
          ELSE
            LET week == ParseInt(Strip(Remove(parts[1], WeekPrefix)))
                year == ParseInt(Strip(parts[2]))
            IN  IF ~week.ok \/ ~year.ok THEN WeekSentinel
                ELSE IF 1 <= week.val /\ week.val <= 53
                THEN << year.val, week.val >>
                ELSE WeekSentinel

parse_month_period(period_str) ==
    IF period_str = NoPeriod THEN TimestampMax
    ELSE
      LET s == Strip(period_str)
      IN  IF Len(s) # 8 \/ s[4] # " " THEN TimestampMax
          ELSE
            LET mon == SubSeq(s, 1, 3)
                year == StrToInt(SubSeq(s, 5, 8))
            IN  IF year < 1 \/ ~(\E m \in 1..12 : MonthAbbr[m] = mon)
                THEN TimestampMax
                ELSE LET first == ToOrdinal(year, CHOOSE m \in 1..12 : MonthAbbr[m] = mon, 1)
                     IN  IF InBounds(first) THEN first ELSE TimestampMax

\* pd.to_datetime(period, errors='coerce') of a key that is a day, with or
\* without the time of day; NaT sorts last.
parse_day_period(period_str) ==
    LET day == IF Len(period_str) = 19 /\ SubSeq(period_str, 11, 19) = Midnight
               THEN SubSeq(period_str, 1, 10)
               ELSE period_str
    IN  IF Len(day) # 10 \/ day[5] # "-" \/ day[8] # "-"
        THEN TimestampMax
        ELSE
          LET y == StrToInt(SubSeq(day, 1, 4))
              m == StrToInt(SubSeq(day, 6, 7))
              d == StrToInt(SubSeq(day, 9, 10))
          IN  IF y < 1 \/ m < 1 \/ m > 12 \/ d < 1 THEN TimestampMax
              ELSE IF d > DaysInMonth(y, m) THEN TimestampMax
              ELSE IF ~InBounds(ToOrdinal(y, m, d)) THEN TimestampMax
              ELSE ToOrdinal(y, m, d)

\* datetime(year, 1, 4) and the arithmetic on it raise outside the years
\* 1..9999.
DatetimeYears == 1..9999

\* is_past_period: the period of the key ended before the reference date.
\* Every exception is caught and gives False.
is_past_period(period_str, ptype, reference) ==
    IF period_str = NoPeriod THEN FALSE
    ELSE
      LET s == Strip(period_str)
          today == ToOrdinal(reference.y, reference.m, reference.d)
      IN  IF ptype = "Daily"
          THEN LET period_date == parse_day_period(s)
               IN  period_date # TimestampMax /\ period_date < today
          ELSE IF ptype = "Weekly"
          THEN LET parsed == parse_week_period(s)
                   year == parsed[1]
                   week == parsed[2]
               IN  IF ~(year < 9999) THEN FALSE
                   ELSE IF year \notin DatetimeYears THEN FALSE
                   ELSE LET jan4 == ToOrdinal(year, 1, 4)
                            week_start == jan4 - ((jan4 + 6) % 7)
                            target_week_start == week_start + 7 * (week - 1)
                            target_week_end == target_week_start + 6
                        IN  IF target_week_end > ToOrdinal(9999, 12, 31) THEN FALSE
                            ELSE target_week_end < today
          ELSE IF ptype = "Monthly"
          THEN LET period_date == parse_month_period(s)
               IN  IF period_date = TimestampMax THEN FALSE
                   ELSE LET year == StrToInt(SubSeq(s, 5, 8))
                            month == CHOOSE m \in 1..12 : MonthAbbr[m] = SubSeq(s, 1, 3)
                            next_month == period_date + DaysInMonth(year, month)
                        IN  IF ~InBounds(next_month) THEN FALSE
                            ELSE next_month <= today
          ELSE FALSE

\* ------------------------------------------------------------- the state

VARIABLES
    period_type,     \* option: "Daily", "Weekly" or "Monthly"
    track_backlog,   \* option: backlog-tracking mode
    df_demand,       \* demand lines [pt_code, demand_date, demand_quantity, brand]
    df_supply,       \* supply lines [pt_code, date, quantity, brand]
    pc,              \* position in calculate_gap_with_carry_forward
    raised,          \* the exception the call ended with, or "none"
    period_data,     \* merged rows, one per (pt_code, period)
    products,        \* products still to fold, in unique() order
    product,         \* the product being folded
    product_data,    \* its rows still to process, sorted by period
    idx,             \* rows of the current product processed so far
    carry_forward,   \* inventory rolled into the next period
    backlog,         \* unmet demand rolled into the next period
    results,         \* rows emitted so far, in fold order
    gap_df,          \* the returned rows
    categorization,  \* categorize_products(gap_df)
    date_value,      \* a date given to convert_to_period
    period_str,      \* a period key: given, or made by convert_to_period
    reference_date,  \* the reference date of is_past_period
    week_key,        \* parse_week_period(period_str)
    month_key,       \* parse_month_period(period_str)
    past,            \* is_past_period(period_str, period_type, reference_date)
    shortage_summary, \* the last result of get_shortage_summary(gap_df)
    summary_metrics, \* the last result of get_gap_summary_metrics(gap_df)
    calls,           \* how often each of the three has run on gap_df
    include_safety_stock, \* Net GAP option: hold the safety stock back
    net_row,         \* Net GAP: one item of the merged frame and its metrics
    gap_filters,     \* GAPState: session key 'gap_filters'
    gap_result,      \* GAPState: session key 'gap_result'
    current_page,    \* GAPState: session key 'current_page'
    period_gap_analysis_data, \* Period GAP page: the session's saved state
    pgap_gap_df,     \* Period GAP page: session key 'pgap_gap_df'
    pgap_result_cache_key, \* Period GAP page: session key of that name
    gap_analysis_result, \* Period GAP page: session key for other pages
    display_filters, \* Period GAP page: the display filters of the last run
    page_gap_df,     \* Period GAP page: gap_df of the last run
    gap_df_filtered, \* Period GAP page: the rows left by the display filters
    displayed        \* Period GAP page: the last run showed a GAP result

\* The state of the period key functions.
key_state ==
    << date_value, period_str, reference_date, week_key, month_key, past >>

\* The state of the engine, but for its period_type and its position.
engine_state ==
    << track_backlog, df_demand, df_supply, raised, period_data, products,
       product, product_data, idx, carry_forward, backlog, results, gap_df,
       categorization >>

\* The results of the summaries of the returned rows.
analysis_state == << shortage_summary, summary_metrics, calls >>

\* The state of the Net GAP page and of the Period GAP page.
net_state == << include_safety_stock, net_row >>

gap_state == << gap_filters, gap_result, current_page >>

\* The state of the Period GAP page.
page_state ==
    << period_gap_analysis_data, pgap_gap_df, pgap_result_cache_key,
       gap_analysis_result, display_filters, page_gap_df, gap_df_filtered,
       displayed >>

outside_state == << net_state, gap_state, page_state >>

vars ==
    << period_type, track_backlog, df_demand, df_supply, pc, raised,
       period_data, products, product, product_data, idx, carry_forward, backlog,
       results, gap_df, categorization, date_value, period_str,
       reference_date, week_key, month_key, past, analysis_state,
       outside_state >>

\* ----------------------------------------------------------- the inputs

\* Most lines of the two input tables together, in the general inputs.
MaxLines == 2

\* Largest quantity of a line, in the general inputs.
MaxQty == 1

PeriodTypes == { "Daily", "Weekly", "Monthly" }

\* A period_type that is none of the three.
OtherPeriodType == "Quarterly"

\* A descriptive attribute without a value (None / NaN).
NoBrand == << >>

\* The attribute value of the lines that are given none of their own.
SomeBrand == << "G" >>

PtCodes == { << "A" >>, << "B" >> }

Date(y, m, d) == [y |-> y, m |-> m, d |-> d]

\* Week 52 - 2024 / Dec 2024
D1 == Date(2024, 12, 23)

\* Week 2 - 2025 / Jan 2025
D2 == Date(2025, 1, 6)

\* Week 9 - 2025 / Feb 2025
D3 == Date(2025, 2, 24)

\* Week 10 - 2025 / Mar 2025
D4 == Date(2025, 3, 3)

\* brand stands for the descriptive columns brand, product_name,
\* package_size and standard_uom, which go through the same statements.
DemandLineOf(p, dt, q, b) ==
    [pt_code |-> p, demand_date |-> dt, demand_quantity |-> q, brand |-> b]

SupplyLineOf(p, dt, q, b) ==
    [pt_code |-> p, date |-> dt, quantity |-> q, brand |-> b]

DemandLine(p, dt, q) == DemandLineOf(p, dt, q, SomeBrand)

SupplyLine(p, dt, q) == SupplyLineOf(p, dt, q, SomeBrand)

NoCategorization ==
    [net_shortage |-> {}, net_surplus |-> {}, balanced |-> {},
     timing_shortage |-> {}, timing_surplus |-> {}]

\* ------------------------------------------------------ period_processor

\* _add_period_column: the period key of every line; lines without a key
\* are removed.
RECURSIVE AddPeriodColumn(_, _, _)
AddPeriodColumn(df, ptype, is_demand) ==
    IF df = << >> THEN << >>
    ELSE
      LET line == Head(df)
          dt == IF is_demand THEN line.demand_date ELSE line.date
          qty == IF is_demand THEN line.demand_quantity ELSE line.quantity
          period == convert_to_period(dt, ptype)
          rest == AddPeriodColumn(Tail(df), ptype, is_demand)
      IN  IF period = NoPeriod THEN rest
          ELSE << [pt_code |-> line.pt_code, period |-> period, qty |-> qty,
                    brand |-> line.brand] >>
               \o rest

\* A bug to compare with: the group keeps the quantity of its first line.
RECURSIVE GroupFirstQty(_, _, _)
GroupFirstQty(df, p, period) ==
    IF df = << >> THEN 0
    ELSE IF Head(df).pt_code = p /\ Head(df).period = period THEN Head(df).qty
    ELSE GroupFirstQty(Tail(df), p, period)

\* groupby(['pt_code', 'period']) ... 'sum' for one group.
RECURSIVE GroupSum(_, _, _)
GroupSum(df, p, period) ==
    IF df = << >> THEN 0
    ELSE (IF Head(df).pt_code = p /\ Head(df).period = period
          THEN Head(df).qty ELSE 0)
         + GroupSum(Tail(df), p, period)

\* groupby(['pt_code', 'period']) ... 'first' for one group: the first
\* value of the group that is not null, null if there is none.
RECURSIVE GroupFirst(_, _, _)
GroupFirst(df, p, period) ==
    IF df = << >> THEN NoBrand
    ELSE IF Head(df).pt_code = p /\ Head(df).period = period
            /\ Head(df).brand # NoBrand
    THEN Head(df).brand
    ELSE GroupFirst(Tail(df), p, period)

\* The periods in which a product has lines.
PeriodsOf(df, p) == { df[i].period : i \in { j \in 1..Len(df) : df[j].pt_code = p } }

\* The first group of a product in the grouped frame: groupby lists the
\* groups in the order of their keys, the period keys as text.
FirstGroup(df, p) ==
    CHOOSE period \in PeriodsOf(df, p) :
       \A other \in PeriodsOf(df, p) : ~TextLess(other, period)

\* all_product_info: the product's row of the demand frame if it has one,
\* else its row of the supply frame (drop_duplicates keeps the first).
ProductInfo(p, demand, supply) ==
    IF PeriodsOf(demand, p) # {} THEN GroupFirst(demand, p, FirstGroup(demand, p))
    ELSE IF PeriodsOf(supply, p) # {} THEN GroupFirst(supply, p, FirstGroup(supply, p))
    ELSE NoBrand

GroupKeys(df) == { << df[i].pt_code, df[i].period >> : i \in 1..Len(df) }

\* The injective enumerations of a finite set: list(all_keys) of a set has
\* no defined order.
Enumerations(S) ==
    { f \in [1..Cardinality(S) -> S] :
        \A i, j \in 1..Cardinality(S) : i # j => f[i] # f[j] }

\* _merge_period_data for one key: both sums, 0 where a side has no line.
MergedRow(key, demand, supply) ==
    [pt_code |-> key[1], period |-> key[2],
     brand |-> ProductInfo(key[1], demand, supply),
     demand_quantity |-> GroupSum(demand, key[1], key[2]),
     supply_quantity |-> GroupSum(supply, key[1], key[2])]

\* process_for_gap: every order of the merged rows the key set can give.
process_for_gap(demand_df, supply_df, ptype) ==
    LET demand == AddPeriodColumn(demand_df, ptype, TRUE)
        supply == AddPeriodColumn(supply_df, ptype, FALSE)
        all_keys == GroupKeys(demand) \cup GroupKeys(supply)
        merged == [key \in all_keys |-> MergedRow(key, demand, supply)]
    IN  { [i \in 1..Cardinality(all_keys) |-> merged[order[i]]] :
            order \in Enumerations(all_keys) }

\* -------------------------------------------------------- gap_calculator

\* Python's order on tuples of integers: by the first place that differs,
\* a proper prefix first.
RECURSIVE KeyLess(_, _)
KeyLess(a, b) ==
    IF b = << >> THEN FALSE
    ELSE IF a = << >> THEN TRUE
    ELSE IF Head(a) # Head(b) THEN Head(a) < Head(b)
    ELSE KeyLess(Tail(a), Tail(b))

\* The code points of a text: two texts compare as their code points do.
RECURSIVE CodePoints(_)
CodePoints(t) ==
    IF t = << >> THEN << >> ELSE << Ord(Head(t)) >> \o CodePoints(Tail(t))

\* A bug to compare with: the rows ordered by the text of the key.
sort_key_text(ptype, period) == CodePoints(period)

\* A bug to compare with: every period gets the same sort key, so that the
\* sort leaves the rows in any order.
sort_key_same(ptype, period) == << 0 >>

\* The sort key of a period key: (year, week) for Weekly, a timestamp
\* otherwise.
sort_key(ptype, period) ==
    IF ptype = "Weekly" THEN parse_week_period(period)
    ELSE IF ptype = "Monthly" THEN << parse_month_period(period) >>
    ELSE << parse_day_period(period) >>

\* The sort keys of the rows of a frame.
RECURSIVE SortKeys(_, _)
SortKeys(rows, ptype) ==
    IF rows = << >> THEN << >>
    ELSE << sort_key(ptype, Head(rows).period) >> \o SortKeys(Tail(rows), ptype)

RECURSIVE ProductKeys(_)
ProductKeys(rows) ==
    IF rows = << >> THEN << >>
    ELSE << CodePoints(Head(rows).pt_code) >> \o ProductKeys(Tail(rows))

Perms(n) ==
    { f \in [1..n -> 1..n] : \A i, j \in 1..n : i # j => f[i] # f[j] }

\* The rows of one product.
RECURSIVE SelectProduct(_, _)
SelectProduct(rows, p) ==
    IF rows = << >> THEN << >>
    ELSE (IF Head(rows).pt_code = p THEN << Head(rows) >> ELSE << >>)
         \o SelectProduct(Tail(rows), p)

\* unique(): the products in order of first appearance.
RECURSIVE UniqueProducts(_)
UniqueProducts(rows) ==
    IF rows = << >> THEN << >>
    ELSE LET init == UniqueProducts(SubSeq(rows, 1, Len(rows) - 1))
             p == rows[Len(rows)].pt_code
         IN  IF \E i \in 1..Len(init) : init[i] = p THEN init
             ELSE Append(init, p)

\* product_data.sort_values('sort_key'): every arrangement of the rows in
\* which no row comes before one whose key is less (rows with equal keys
\* may come out in any order).
SortByPeriod(rows, ptype) ==
    LET keys == SortKeys(rows, ptype)
    IN  { [i \in 1..Len(rows) |-> rows[f[i]]] :
            f \in { g \in Perms(Len(rows)) :
                      \A i, j \in 1..Len(rows) :
                         i < j => ~KeyLess(keys[g[j]], keys[g[i]]) } }

\* A bug to compare with: the result is returned in the order of the fold.
SortByProductPeriod_skipped(rows, ptype) == { rows }

\* gap_df.sort_values(['_sort_product', '_sort_period']).
SortByProductPeriod(rows, ptype) ==
    LET keys == SortKeys(rows, ptype)
        codes == ProductKeys(rows)
    IN  { [i \in 1..Len(rows) |-> rows[f[i]]] :
            f \in { g \in Perms(Len(rows)) :
                      \A i, j \in 1..Len(rows) :
                         i < j =>
                           /\ ~KeyLess(codes[g[j]], codes[g[i]])
                           /\ codes[g[j]] = codes[g[i]] =>
                                 ~KeyLess(keys[g[j]], keys[g[i]]) } }

RECURSIVE Gcd(_, _)
Gcd(a, b) == IF b = 0 THEN a ELSE Gcd(b, a % b)

\* A percentage as an exact fraction in lowest terms.
Percent(num, den) ==
    [num |-> num \div Gcd(num, den), den |-> den \div Gcd(num, den)]

\* A bug to compare with: the tracking variables are set once, before the
\* loop over the products.
fold_init_once(prev_carry_forward, prev_backlog) ==
    [carry_forward |-> prev_carry_forward, backlog |-> prev_backlog]

\* The tracking variables at the start of a product's fold, whatever the
\* product before it left.
fold_init(prev_carry_forward, prev_backlog) ==
    [carry_forward |-> 0, backlog |-> 0]

\* A bug to compare with: the row reports no inherited backlog.
begin_of_period_no_backlog(cf, bl) ==
    [begin_inventory |-> cf, backlog_from_previous |-> 0]

\* The values stored at the beginning of a period.
begin_of_period(cf, bl) ==
    [begin_inventory |-> cf, backlog_from_previous |-> bl]

\* A bug to compare with: the inherited backlog is left out of the demand.
effective_demand_own(track, demand_quantity, bl) == demand_quantity

effective_demand_of(track, demand_quantity, bl) ==
    IF track THEN demand_quantity + bl ELSE demand_quantity

\* A bug to compare with: nothing is carried forward.
total_available_no_carry(supply_quantity, cf) == supply_quantity

total_available_of(supply_quantity, cf) == supply_quantity + cf

\* A bug to compare with: a shortage leaves the carry forward as it was.
rollover_keep_carry(track, gap, cf) ==
    IF track
    THEN (IF gap >= 0 THEN [carry_forward |-> gap, backlog |-> 0]
          ELSE [carry_forward |-> cf, backlog |-> -gap])
    ELSE [carry_forward |-> IF gap > 0 THEN gap ELSE 0, backlog |-> 0]

\* A bug to compare with: the independent mode carries a negative gap.
rollover_signed_carry(track, gap, cf) ==
    IF track
    THEN (IF gap >= 0 THEN [carry_forward |-> gap, backlog |-> 0]
          ELSE [carry_forward |-> 0, backlog |-> -gap])
    ELSE [carry_forward |-> gap, backlog |-> 0]

\* A bug to compare with: a shortage leaves no backlog behind.
rollover_without_backlog(track, gap, cf) ==
    [carry_forward |-> IF gap > 0 THEN gap ELSE 0, backlog |-> 0]

\* The tracking variables for the next period (cf: the carry forward the
\* period began with).
rollover(track, gap, cf) ==
    IF track
    THEN (IF gap >= 0 THEN [carry_forward |-> gap, backlog |-> 0]
          ELSE [carry_forward |-> 0, backlog |-> -gap])
    ELSE [carry_forward |-> IF gap > 0 THEN gap ELSE 0, backlog |-> 0]

\* A bug to compare with: the rate is not capped at 100.
fulfillment_rate_uncapped(total_available, demand) ==
    IF demand > 0 THEN Percent(total_available * 100, demand)
    ELSE (IF total_available > 0 THEN Percent(100, 1) ELSE Percent(0, 1))

\* A bug to compare with: without demand the rate is 100, also when
\* nothing is available.
fulfillment_rate_full_without_demand(total_available, demand) ==
    IF demand > 0
    THEN (IF total_available >= demand THEN Percent(100, 1)
          ELSE Percent(total_available * 100, demand))
    ELSE Percent(100, 1)

\* min(100, available / demand * 100), or 100 / 0 without demand.
fulfillment_rate(total_available, demand) ==
    IF demand > 0
    THEN (IF total_available >= demand THEN Percent(100, 1)
          ELSE Percent(total_available * 100, demand))
    ELSE (IF total_available > 0 THEN Percent(100, 1) ELSE Percent(0, 1))

\* One pass of the loop body: the emitted row and the tracking variables
\* for the next period.
period_step(track, row, cf, bl) ==
    LET begin == begin_of_period(cf, bl)
        effective_demand == effective_demand_of(track, row.demand_quantity, bl)
        total_available == total_available_of(row.supply_quantity, cf)
        gap == total_available - effective_demand
        next == rollover(track, gap, cf)
        base ==
            [pt_code |-> row.pt_code,
             brand |-> row.brand,
             period |-> row.period,
             begin_inventory |-> begin.begin_inventory,
             supply_in_period |-> row.supply_quantity,
             total_available |-> total_available,
             total_demand_qty |-> row.demand_quantity,
             gap_quantity |-> gap,
             fulfillment_rate_percent |->
                 fulfillment_rate(total_available, effective_demand),
             fulfillment_status |-> IF gap >= 0 THEN "Fulfilled" ELSE "Shortage"]
        tracked ==
            [backlog_qty |-> begin.backlog_from_previous,
             effective_demand |-> effective_demand,
             backlog_to_next |-> next.backlog]
    IN  [row |-> IF track THEN base @@ tracked ELSE base,
         carry_forward |-> next.carry_forward,
         backlog |-> next.backlog]

\* ------------------------------------------------------ shortage_analyzer

RECURSIVE SumSupply(_)
SumSupply(rows) ==
    IF rows = << >> THEN 0
    ELSE Head(rows).supply_in_period + SumSupply(Tail(rows))

RECURSIVE SumDemand(_)
SumDemand(rows) ==
    IF rows = << >> THEN 0
    ELSE Head(rows).total_demand_qty + SumDemand(Tail(rows))

RECURSIVE SumGap(_)
SumGap(rows) ==
    IF rows = << >> THEN 0
    ELSE Head(rows).gap_quantity + SumGap(Tail(rows))

ProductsOf(rows) == { rows[i].pt_code : i \in 1..Len(rows) }

\* A bug to compare with: the net position taken from the period gaps.
product_totals_from_gaps(product_df) ==
    [total_demand |-> 0, total_supply |-> SumGap(product_df)]

\* The totals of one product's rows.
product_totals(product_df) ==
    [total_demand |-> SumDemand(product_df),
     total_supply |-> SumSupply(product_df)]

categorize_main_category(gap) ==
    LET totals(p) == product_totals(SelectProduct(gap, p))
    IN  [net_shortage |->
            { p \in ProductsOf(gap) :
                totals(p).total_supply < totals(p).total_demand },
         net_surplus |->
            { p \in ProductsOf(gap) :
                /\ ~(totals(p).total_supply < totals(p).total_demand)
                /\ totals(p).total_supply > totals(p).total_demand },
         balanced |->
            { p \in ProductsOf(gap) :
                /\ ~(totals(p).total_supply < totals(p).total_demand)
                /\ ~(totals(p).total_supply > totals(p).total_demand) }]

\* A bug to compare with: a period that breaks even counts as a surplus.
has_surplus_periods_or_even(product_df) ==
    \E i \in 1..Len(product_df) : product_df[i].gap_quantity >= 0

has_surplus_periods(product_df) ==
    \E i \in 1..Len(product_df) : product_df[i].gap_quantity > 0

\* A bug to compare with: a period that breaks even counts as a shortage.
has_shortage_periods_or_even(product_df) ==
    \E i \in 1..Len(product_df) : product_df[i].gap_quantity <= 0

has_shortage_periods(product_df) ==
    \E i \in 1..Len(product_df) : product_df[i].gap_quantity < 0

categorize_timing_issues(gap) ==
    [timing_shortage |->
        { p \in ProductsOf(gap) : has_shortage_periods(SelectProduct(gap, p)) },
     timing_surplus |->
        { p \in ProductsOf(gap) : has_surplus_periods(SelectProduct(gap, p)) }]

categorize_products(gap) ==
    IF gap = << >> THEN NoCategorization
    ELSE
      LET main_cats == categorize_main_category(gap)
          timing_cats == categorize_timing_issues(gap)
      IN  [net_shortage |-> main_cats.net_shortage,
           net_surplus |-> main_cats.net_surplus,
           balanced |-> main_cats.balanced,
           timing_shortage |-> timing_cats.timing_shortage,
           timing_surplus |-> timing_cats.timing_surplus]

\* ------------------------------------- gap_calculator: summary metrics

\* The sum and the mean of percentages kept as fractions.
FracAdd(a, b) == Percent(a.num * b.den + b.num * a.den, a.den * b.den)

RECURSIVE SumRates(_)
SumRates(rows) ==
    IF rows = << >> THEN Percent(0, 1)
    ELSE FracAdd(Head(rows).fulfillment_rate_percent, SumRates(Tail(rows)))

MeanRate(rows) ==
    LET total == SumRates(rows) IN Percent(total.num, total.den * Len(rows))

\* groupby('pt_code')['backlog_to_next'].last()
final_backlog_by_product(gap, p) ==
    LET product_df == SelectProduct(gap, p)
    IN  product_df[Len(product_df)].backlog_to_next

\* groupby('pt_code')['backlog_qty'].max()
RECURSIVE MaxBacklogQty(_)
MaxBacklogQty(rows) ==
    IF Len(rows) = 1 THEN rows[1].backlog_qty
    ELSE LET rest == MaxBacklogQty(Tail(rows))
         IN  IF Head(rows).backlog_qty > rest THEN Head(rows).backlog_qty ELSE rest

max_backlog_by_product(gap, p) == MaxBacklogQty(SelectProduct(gap, p))

RECURSIVE SumOver(_, _)
SumOver(S, f) ==
    IF S = {} THEN 0
    ELSE LET x == CHOOSE y \in S : TRUE IN f[x] + SumOver(S \ {x}, f)

\* The rows of a period with a shortage.
RECURSIVE ShortageRows(_)
ShortageRows(rows) ==
    IF rows = << >> THEN << >>
    ELSE (IF Head(rows).gap_quantity < 0 THEN << Head(rows) >> ELSE << >>)
         \o ShortageRows(Tail(rows))

get_gap_summary_metrics(gap, track) ==
    IF gap = << >> THEN << >>
    ELSE
      LET codes == { gap[i].pt_code : i \in 1..Len(gap) }
          metrics ==
            [total_products |-> Cardinality(codes),
             total_periods |-> Cardinality({ gap[i].period : i \in 1..Len(gap) }),
             shortage_products |->
                 Cardinality({ r.pt_code : r \in
                                 { gap[i] : i \in { j \in 1..Len(gap) :
                                                     gap[j].gap_quantity < 0 } } }),
             total_shortage_qty |-> -SumGap(ShortageRows(gap)),
             avg_fulfillment_rate |-> MeanRate(gap)]
          final == [p \in codes |-> final_backlog_by_product(gap, p)]
          peak == [p \in codes |-> max_backlog_by_product(gap, p)]
          backlog_metrics ==
            [total_backlog |-> SumOver(codes, final),
             products_with_backlog |-> Cardinality({ p \in codes : final[p] > 0 }),
             peak_total_backlog |-> SumOver(codes, peak)]
      IN  IF track /\ "backlog_qty" \in DOMAIN gap[1]
          THEN metrics @@ backlog_metrics
          ELSE metrics

\* ------------------------------------ shortage_analyzer: the summary

\* The number of periods of a product with a shortage, with a surplus.
RECURSIVE CountShortage(_)
CountShortage(rows) ==
    IF rows = << >> THEN 0
    ELSE (IF Head(rows).gap_quantity < 0 THEN 1 ELSE 0) + CountShortage(Tail(rows))

RECURSIVE CountSurplus(_)
CountSurplus(rows) ==
    IF rows = << >> THEN 0
    ELSE (IF Head(rows).gap_quantity > 0 THEN 1 ELSE 0) + CountSurplus(Tail(rows))

\* The largest shortage of a period, and the largest surplus, or 0.
RECURSIVE MaxShortage(_)
MaxShortage(rows) ==
    IF rows = << >> THEN 0
    ELSE LET rest == MaxShortage(Tail(rows))
             here == IF Head(rows).gap_quantity < 0
                     THEN -Head(rows).gap_quantity ELSE 0
         IN  IF here > rest THEN here ELSE rest

RECURSIVE MaxSurplus(_)
MaxSurplus(rows) ==
    IF rows = << >> THEN 0
    ELSE LET rest == MaxSurplus(Tail(rows))
             here == IF Head(rows).gap_quantity > 0
                     THEN Head(rows).gap_quantity ELSE 0
         IN  IF here > rest THEN here ELSE rest

priority_order(priority) ==
    CASE priority = "High" -> 1
      [] priority = "Medium" -> 2
      [] priority = "Low" -> 3

\* The summary row of one product.
summary_row(gap, pt_code) ==
    LET product_df == SelectProduct(gap, pt_code)
        main_categorization == categorize_main_category(gap)
        timing_categorization == categorize_timing_issues(gap)
        total_demand == SumDemand(product_df)
        total_supply == SumSupply(product_df)
        verdict ==
            IF pt_code \in main_categorization.net_shortage
            THEN << "Net Shortage", "Place New Order", "High" >>
            ELSE IF pt_code \in main_categorization.net_surplus
            THEN << "Net Surplus", "Review Excess Stock", "Low" >>
            ELSE IF pt_code \in timing_categorization.timing_shortage
            THEN << "Balanced", "Expedite/Reschedule", "Medium" >>
            ELSE << "Balanced", "Monitor", "Low" >>
    IN  [pt_code |-> pt_code,
         brand |-> product_df[1].brand,
         category |-> verdict[1],
         total_demand |-> total_demand,
         total_supply |-> total_supply,
         net_position |-> total_supply - total_demand,
         shortage_periods |-> CountShortage(product_df),
         surplus_periods |-> CountSurplus(product_df),
         total_periods |-> Len(product_df),
         max_shortage |-> MaxShortage(product_df),
         max_surplus |-> MaxSurplus(product_df),
         recommended_action |-> verdict[2],
         priority |-> verdict[3]]

\* A bug to compare with: a sort that leaves rows with equal keys in any
\* order.
sort_by_priority_unstable(rows) ==
    LET key(r) == << priority_order(r.priority), r.net_position >>
    IN  { [i \in 1..Len(rows) |-> rows[f[i]]] :
            f \in { g \in Perms(Len(rows)) :
                      \A i, j \in 1..Len(rows) :
                         i < j => ~KeyLess(key(rows[g[j]]), key(rows[g[i]])) } }

\* summary_df.sort_values(['priority_sort', 'net_position']): a sort on
\* more than one column is a lexsort, which keeps rows with equal keys
\* in the order they had.
sort_by_priority(rows) ==
    LET key(r) == << priority_order(r.priority), r.net_position >>
    IN  { [i \in 1..Len(rows) |-> rows[f[i]]] :
            f \in { g \in Perms(Len(rows)) :
                      \A i, j \in 1..Len(rows) :
                         i < j =>
                           /\ ~KeyLess(key(rows[g[j]]), key(rows[g[i]]))
                           /\ key(rows[g[j]]) = key(rows[g[i]]) => g[i] < g[j] } }

\* get_shortage_summary: the frames it can return.
get_shortage_summary(gap) ==
    IF gap = << >> THEN { << >> }
    ELSE LET codes == UniqueProducts(gap)
             summary_data == [i \in 1..Len(codes) |-> summary_row(gap, codes[i])]
         IN  sort_by_priority(summary_data)

\* ------------------------------------------------------------ the inputs

\* A table is listed in a fixed order of its lines: the engine sums the
\* lines of a key and enumerates the keys as a set, so the order of the
\* lines is not seen.
DateRank(dt) == dt.y * 10000 + dt.m * 100 + dt.d

LineBefore(k, l) ==
    \/ TextLess(k.pt_code, l.pt_code)
    \/ k.pt_code = l.pt_code /\ DateRank(k.dt) < DateRank(l.dt)
    \/ k.pt_code = l.pt_code /\ k.dt = l.dt /\ k.qty < l.qty

Lines(codes, dates, qtys) ==
    { [pt_code |-> p, dt |-> d, qty |-> q] : p \in codes, d \in dates, q \in qtys }

TablesOf(lines, n) ==
    { t \in [1..n -> lines] : \A i, j \in 1..n : i < j => ~LineBefore(t[j], t[i]) }

AsDemand(t) == [i \in 1..Len(t) |-> DemandLine(t[i].pt_code, t[i].dt, t[i].qty)]

AsSupply(t) == [i \in 1..Len(t) |-> SupplyLine(t[i].pt_code, t[i].dt, t[i].qty)]

\* The tables of at most MaxLines lines in all over the given lines.
TablePairs(lines) ==
    UNION { { << AsDemand(d), AsSupply(s) >> :
                d \in TablesOf(lines, n[1]), s \in TablesOf(lines, n[2]) } :
            n \in { m \in (0..MaxLines) \X (0..MaxLines) : m[1] + m[2] <= MaxLines } }

\* General inputs: two products and two periods, and a line without a
\* date.
GeneralInputs ==
    TablePairs(Lines(PtCodes, {D1, D2}, 0..MaxQty)
               \cup Lines({ << "A" >> }, {NaT}, {1}))

\* The quantities of the backlog example: one product, a demand and a
\* supply line in each of two consecutive periods.
BacklogExampleInputs ==
    { << << DemandLine(<< "A" >>, D1, d1), DemandLine(<< "A" >>, D2, d2) >>,
         << SupplyLine(<< "A" >>, D1, s1), SupplyLine(<< "A" >>, D2, s2) >> >> :
        d1 \in {50, 100}, d2 \in {50, 100}, s1 \in {60, 100}, s2 \in {60, 100} }

\* The quantities of the timing example: one product over three periods,
\* each with a demand of 0 or 5 and a supply of 0 or 10.
TimingExampleInputs ==
    { << << DemandLine(<< "A" >>, D2, d[1]), DemandLine(<< "A" >>, D3, d[2]),
            DemandLine(<< "A" >>, D4, d[3]) >>,
         << SupplyLine(<< "A" >>, D2, s[1]), SupplyLine(<< "A" >>, D3, s[2]),
            SupplyLine(<< "A" >>, D4, s[3]) >> >> :
        d \in [1..3 -> {0, 5}], s \in [1..3 -> {0, 10}] }

\* Two products with the same lines in opposite periods: the demand of A
\* comes first and its supply second, the supply of B first and its demand
\* second.
MirrorInputs ==
    { << << DemandLine(<< "A" >>, D1, d), DemandLine(<< "B" >>, D2, d) >>,
         << SupplyLine(<< "A" >>, D2, q), SupplyLine(<< "B" >>, D1, q) >> >> :
        d \in {1, 2}, q \in {1, 2} }

\* Lines with descriptive attributes: two demand lines of product A, in
\* one period or in two (or the second without a date), each with a brand
\* or without, and a supply line of A or of B with a brand or without.
AttributeInputs ==
    { << << DemandLineOf(<< "A" >>, D1, 1, b[1]), DemandLineOf(<< "A" >>, dt, 2, b[2]) >>,
         << SupplyLineOf(p, D2, 1, b[3]) >> >> :
        dt \in {D1, D2, NaT}, p \in PtCodes,
        b \in {NoBrand, << "X" >>} \X {NoBrand, << "Z" >>} \X {NoBrand, << "Y" >>} }

Inputs ==
    GeneralInputs \cup BacklogExampleInputs \cup TimingExampleInputs
    \cup MirrorInputs \cup AttributeInputs


\* ------------------------------------------------------------ the machine

\* Most runs of one summary function on the same returned rows.
MaxCalls == 2

NoCalls ==
    [categorize_products |-> 0, get_shortage_summary |-> 0,
     get_gap_summary_metrics |-> 0]

\* No summary has run.
InitAnalysis ==
    /\ shortage_summary = << >>
    /\ summary_metrics = << >>
    /\ calls = NoCalls

\* None, as the value of a session key.
None == << >>

\* A value that is not None, as the value of a session key.
Some(x) == << x >>

\* GAPState.get_default_filters: entity None, no products, no brands.
get_default_filters ==
    [entity |-> "None",
     exclude_entity |-> FALSE,
     products |-> << >>,
     exclude_products |-> FALSE,
     brands |-> << >>,
     exclude_brands |-> FALSE,
     exclude_expired |-> TRUE,
     group_by |-> "product",
     supply_sources |->
         << "INVENTORY", "CAN_PENDING", "WAREHOUSE_TRANSFER", "PURCHASE_ORDER" >>,
     demand_sources |-> << "OC_PENDING" >>,
     include_safety |-> TRUE]

\* No Net GAP calculation has been asked for.
IdleNet ==
    /\ include_safety_stock = FALSE
    /\ net_row = [total_supply |-> 0, total_demand |-> 0]

\* GAPState._init_defaults.
IdleGapState ==
    /\ gap_filters = get_default_filters
    /\ gap_result = None
    /\ current_page = 1

\* The display filters as the widgets start: everything shown.
DefaultDisplayFilters ==
    [show_matched |-> TRUE, show_demand_only |-> TRUE,
     show_supply_only |-> TRUE, period_filter |-> "All",
     period_type |-> "Weekly", track_backlog |-> TRUE]

\* init_session_state of the Period GAP page: nothing ran.
IdlePage ==
    /\ period_gap_analysis_data = None
    /\ pgap_gap_df = None
    /\ pgap_result_cache_key = None
    /\ gap_analysis_result = None
    /\ display_filters = DefaultDisplayFilters
    /\ page_gap_df = None
    /\ gap_df_filtered = None
    /\ displayed = FALSE

InitOutside == IdleNet /\ IdleGapState /\ IdlePage

\* No Period GAP engine run, no summary and no period key.
IdleEngine ==
    /\ period_type = "Weekly"
    /\ track_backlog = FALSE
    /\ df_demand = << >>
    /\ df_supply = << >>
    /\ raised = "none"
    /\ period_data = << >>
    /\ products = << >>
    /\ product = << >>
    /\ product_data = << >>
    /\ idx = 0
    /\ carry_forward = 0
    /\ backlog = 0
    /\ results = << >>
    /\ gap_df = << >>
    /\ categorization = NoCategorization
    /\ date_value = NaT
    /\ period_str = NoPeriod
    /\ reference_date = NaT
    /\ week_key = WeekSentinel
    /\ month_key = TimestampMax
    /\ past = FALSE
    /\ InitAnalysis

Init ==
    /\ track_backlog \in BOOLEAN
    /\ \/ /\ period_type \in PeriodTypes
          /\ \E inp \in Inputs : df_demand = inp[1] /\ df_supply = inp[2]
       \/ /\ period_type = OtherPeriodType
          /\ \E inp \in MirrorInputs : df_demand = inp[1] /\ df_supply = inp[2]
    /\ pc = "start"
    /\ raised = "none"
    /\ period_data = << >>
    /\ products = << >>
    /\ product = << >>
    /\ product_data = << >>
    /\ idx = 0
    /\ carry_forward = 0
    /\ backlog = 0
    /\ results = << >>
    /\ gap_df = << >>
    /\ categorization = NoCategorization
    /\ InitAnalysis
    /\ InitOutside
    /\ date_value = NaT
    /\ period_str = NoPeriod
    /\ reference_date = NaT
    /\ week_key = WeekSentinel
    /\ month_key = TimestampMax
    /\ past = FALSE

\* calculate_gap_with_carry_forward, to the loop over the products. Both
\* tables empty returns an empty frame. Tables of which no line has a
\* period leave _merge_period_data with a frame without columns, and
\* _calculate_net_values raises KeyError on its 'supply_quantity'.
Calculate ==
    /\ pc = "start"
    /\ IF df_demand = << >> /\ df_supply = << >>
       THEN /\ pc' = "done"
            /\ UNCHANGED << raised, period_data, products >>
       ELSE \E merged \in process_for_gap(df_demand, df_supply, period_type) :
              /\ period_data' = merged
              /\ IF merged = << >>
                 THEN pc' = "raised" /\ raised' = "KeyError" /\ UNCHANGED products
                 ELSE /\ pc' = "product"
                      /\ products' = UniqueProducts(merged)
                      /\ UNCHANGED raised
    /\ UNCHANGED << period_type, track_backlog, df_demand, df_supply, product,
                    product_data, idx, carry_forward, backlog, results, gap_df,
                    categorization >>
    /\ UNCHANGED key_state
    /\ UNCHANGED analysis_state
    /\ UNCHANGED outside_state

\* The head of the loop over the products: the product's rows sorted by
\* period, the tracking variables initialised.
BeginProduct ==
    /\ pc = "product"
    /\ products # << >>
    /\ product' = Head(products)
    /\ products' = Tail(products)
    /\ product_data' \in
          SortByPeriod(SelectProduct(period_data, Head(products)), period_type)
    /\ idx' = 0
    /\ carry_forward' = fold_init(carry_forward, backlog).carry_forward
    /\ backlog' = fold_init(carry_forward, backlog).backlog
    /\ pc' = "period"
    /\ UNCHANGED << period_type, track_backlog, df_demand, df_supply, raised,
                    period_data, results, gap_df, categorization >>
    /\ UNCHANGED key_state
    /\ UNCHANGED analysis_state
    /\ UNCHANGED outside_state

\* One period of the current product.
ProcessPeriod ==
    /\ pc = "period"
    /\ product_data # << >>
    /\ LET step == period_step(track_backlog, Head(product_data),
                               carry_forward, backlog)
       IN  /\ results' = Append(results, step.row)
           /\ carry_forward' = step.carry_forward
           /\ backlog' = step.backlog
    /\ product_data' = Tail(product_data)
    /\ idx' = idx + 1
    /\ pc' = IF Tail(product_data) # << >> THEN "period"
             ELSE IF products # << >> THEN "product"
             ELSE "sort"
    /\ UNCHANGED << period_type, track_backlog, df_demand, df_supply, raised,
                    period_data, products, product, gap_df, categorization >>
    /\ UNCHANGED key_state
    /\ UNCHANGED analysis_state
    /\ UNCHANGED outside_state

\* The result frame sorted by product and period, and returned.
SortResult ==
    /\ pc = "sort"
    /\ gap_df' \in SortByProductPeriod(results, period_type)
    /\ pc' = "done"
    /\ UNCHANGED << period_type, track_backlog, df_demand, df_supply, raised,
                    period_data, products, product, product_data, idx,
                    carry_forward, backlog, results, categorization >>
    /\ UNCHANGED key_state
    /\ UNCHANGED analysis_state
    /\ UNCHANGED outside_state

\* categorize_products on the returned rows.
Categorize ==
    /\ pc = "done"
    /\ categorization' = categorize_products(gap_df)
    /\ pc' = "categorized"
    /\ UNCHANGED << period_type, track_backlog, df_demand, df_supply, raised,
                    period_data, products, product, product_data, idx,
                    carry_forward, backlog, results, gap_df >>
    /\ UNCHANGED key_state
    /\ UNCHANGED analysis_state
    /\ UNCHANGED outside_state

Next ==
    \/ Calculate
    \/ BeginProduct
    \/ ProcessPeriod
    \/ SortResult
    \/ Categorize

Spec == Init /\ [][Next]_vars

\* ------------------------------- shortage_analyzer: order requirements

\* The first period of a product with a shortage, or None.
first_shortage_period(product_gap) ==
    LET shortage_periods == ShortageRows(product_gap)
    IN  IF shortage_periods = << >> THEN None
        ELSE Some(shortage_periods[1].period)

\* A bug to compare with: the largest backlog of the product's periods.
RECURSIVE final_backlog_peak(_)
final_backlog_peak(product_gap) ==
    IF product_gap = << >> THEN 0
    ELSE LET rest == final_backlog_peak(Tail(product_gap))
         IN  IF Head(product_gap).backlog_to_next > rest
             THEN Head(product_gap).backlog_to_next ELSE rest

\* product_gap['backlog_to_next'].iloc[-1]
final_backlog_of(product_gap) ==
    IF product_gap = << >> THEN 0
    ELSE product_gap[Len(product_gap)].backlog_to_next

\* The order requirement of one product with a net shortage.
order_requirement(gap, pt_code) ==
    LET product_gap == SelectProduct(gap, pt_code)
        total_demand == SumDemand(product_gap)
        total_supply == SumSupply(product_gap)
        net_shortage == total_demand - total_supply
        order_qty ==
            IF "backlog_to_next" \in DOMAIN product_gap[1]
            THEN (IF final_backlog_of(product_gap) > net_shortage
                  THEN final_backlog_of(product_gap) ELSE net_shortage)
            ELSE net_shortage
    IN  [pt_code |-> pt_code,
         brand |-> product_gap[1].brand,
         order_quantity |-> order_qty,
         first_shortage_period |-> first_shortage_period(product_gap),
         total_demand |-> total_demand,
         total_supply |-> total_supply,
         coverage_periods |-> Len(product_gap),
         urgency |-> IF first_shortage_period(product_gap) # None
                     THEN "Immediate" ELSE "Plan"]

\* calculate_order_requirements: the frames it may return. The products
\* are taken from a set, in any order, and sorted by order quantity,
\* largest first.
calculate_order_requirements(gap) ==
    LET net_shortage_products == categorize_main_category(gap).net_shortage
        order_requirements ==
            { order_requirement(gap, p) : p \in net_shortage_products }
    IN  IF net_shortage_products = {} THEN { << >> }
        ELSE { order_df \in Enumerations(order_requirements) :
                 \A i, j \in 1..Len(order_df) :
                    i < j => order_df[i].order_quantity >= order_df[j].order_quantity }

\* ------------------------------------- the overall fill rate as shown

\* min(100, total_supply / total_demand * 100), for a demand above 0.
capped_rate(total_supply, total_demand) ==
    IF total_supply >= total_demand THEN Percent(100, 1)
    ELSE Percent(total_supply * 100, total_demand)

\* No rate is shown.
NoRate == [num |-> -1, den |-> 1]

RECURSIVE SumEffectiveDemand(_)
SumEffectiveDemand(rows) ==
    IF rows = << >> THEN 0
    ELSE Head(rows).effective_demand + SumEffectiveDemand(Tail(rows))

\* create_metadata_sheet: the 'Overall Fill Rate' row of the export.
metadata_fill_rate(gap) ==
    LET total_demand == SumDemand(gap)
        total_supply == SumSupply(gap)
    IN  IF total_demand > 0 THEN capped_rate(total_supply, total_demand)
        ELSE NoRate

\* show_gap_summary: the 'Supply covers ...%' caption of the summary
\* view, for the rows and the track_backlog of the display options.
summary_supply_rate(gap, track) ==
    LET total_demand ==
            IF track /\ "effective_demand" \in DOMAIN gap[1]
            THEN SumEffectiveDemand(gap)
            ELSE SumDemand(gap)
        total_supply == SumSupply(gap)
    IN  IF total_demand > 0 THEN capped_rate(total_supply, total_demand)
        ELSE NoRate

\* --------------------------------------------- the engine as a whole

\* The fold of a product's sorted rows in a given mode.
RECURSIVE FoldIn(_, _, _, _)
FoldIn(track, rows, cf, bl) ==
    IF rows = << >> THEN << >>
    ELSE LET step == period_step(track, Head(rows), cf, bl)
         IN  << step.row >>
             \o FoldIn(track, Tail(rows), step.carry_forward, step.backlog)

\* The rows emitted for the products of a merged frame, product after
\* product, for every order the sort may leave equal keys in.
RECURSIVE FoldProducts(_, _, _, _)
FoldProducts(merged, prods, ptype, track) ==
    IF prods = << >> THEN { << >> }
    ELSE { FoldIn(track, sorted, 0, 0) \o rest :
             sorted \in SortByPeriod(SelectProduct(merged, Head(prods)), ptype),
             rest \in FoldProducts(merged, Tail(prods), ptype, track) }

\* The frames the engine may return for an input with a period in some
\* line.
EngineFrames(demand, supply, ptype, track) ==
    UNION { UNION { SortByProductPeriod(res, ptype) :
                      res \in FoldProducts(merged, UniqueProducts(merged), ptype, track) } :
            merged \in process_for_gap(demand, supply, ptype) }

\* calculate_gap_with_carry_forward as a whole: the frames it may
\* return.
calculate_gap_with_carry_forward(demand, supply, ptype, track) ==
    IF demand = << >> /\ supply = << >> THEN { << >> }
    ELSE EngineFrames(demand, supply, ptype, track)

\* ------------------------------------------- the summaries of a result

\* The engine has returned gap_df for some general input and options.
InitSummary ==
    /\ period_type \in PeriodTypes
    /\ track_backlog \in BOOLEAN
    /\ \E inp \in GeneralInputs : df_demand = inp[1] /\ df_supply = inp[2]
    /\ gap_df \in calculate_gap_with_carry_forward(df_demand, df_supply,
                                                    period_type, track_backlog)
    /\ pc = "returned"
    /\ raised = "none"
    /\ period_data = << >>
    /\ products = << >>
    /\ product = << >>
    /\ product_data = << >>
    /\ idx = 0
    /\ carry_forward = 0
    /\ backlog = 0
    /\ results = << >>
    /\ categorization = NoCategorization
    /\ date_value = NaT
    /\ period_str = NoPeriod
    /\ reference_date = NaT
    /\ week_key = WeekSentinel
    /\ month_key = TimestampMax
    /\ past = FALSE
    /\ InitAnalysis
    /\ InitOutside

\* categorize_products on the returned rows, a first time or again.
CategorizeProducts ==
    /\ pc = "returned"
    /\ calls.categorize_products < MaxCalls
    /\ categorization' = categorize_products(gap_df)
    /\ calls' = [calls EXCEPT !.categorize_products = @ + 1]
    /\ UNCHANGED << period_type, pc, track_backlog, df_demand, df_supply,
                    raised, period_data, products, product, product_data, idx,
                    carry_forward, backlog, results, gap_df >>
    /\ UNCHANGED << shortage_summary, summary_metrics >>
    /\ UNCHANGED key_state
    /\ UNCHANGED outside_state

\* get_shortage_summary on the returned rows, a first time or again.
ShortageSummary ==
    /\ pc = "returned"
    /\ calls.get_shortage_summary < MaxCalls
    /\ shortage_summary' \in get_shortage_summary(gap_df)
    /\ calls' = [calls EXCEPT !.get_shortage_summary = @ + 1]
    /\ UNCHANGED << period_type, pc >>
    /\ UNCHANGED engine_state
    /\ UNCHANGED summary_metrics
    /\ UNCHANGED key_state
    /\ UNCHANGED outside_state

\* get_gap_summary_metrics on the returned rows, a first time or again,
\* with the mode of the run as its track_backlog argument.
SummaryMetrics ==
    /\ pc = "returned"
    /\ calls.get_gap_summary_metrics < MaxCalls
    /\ summary_metrics' = get_gap_summary_metrics(gap_df, track_backlog)
    /\ calls' = [calls EXCEPT !.get_gap_summary_metrics = @ + 1]
    /\ UNCHANGED << period_type, pc >>
    /\ UNCHANGED engine_state
    /\ UNCHANGED shortage_summary
    /\ UNCHANGED key_state
    /\ UNCHANGED outside_state

NextSummary ==
    \/ CategorizeProducts
    \/ ShortageSummary
    \/ SummaryMetrics

SummarySpec == InitSummary /\ [][NextSummary]_vars

\* ----------------------------------------------- the Net GAP calculator

\* Largest supply, demand and safety stock quantity of an item.
MaxNetQty == 5

\* THRESHOLDS['shortage'] and THRESHOLDS['surplus'], as fractions.
Fraction(n, d) == [num |-> n, den |-> d]

shortage_thresholds ==
    [critical |-> Fraction(1, 4), severe |-> Fraction(1, 2),
     high |-> Fraction(3, 4), moderate |-> Fraction(9, 10)]

surplus_thresholds ==
    [light |-> Fraction(5, 4), moderate |-> Fraction(7, 4),
     high |-> Fraction(5, 2)]

ShortageStatuses ==
    { "CRITICAL_SHORTAGE", "SEVERE_SHORTAGE", "HIGH_SHORTAGE",
      "MODERATE_SHORTAGE", "LIGHT_SHORTAGE" }

SurplusStatuses ==
    { "LIGHT_SURPLUS", "MODERATE_SURPLUS", "HIGH_SURPLUS", "SEVERE_SURPLUS" }

\* coverage_ratio: available_supply / total_demand, NaN without demand.
NaN == Fraction(0, 0)

FracLess(a, b) == a.num * b.den < b.num * a.den

FracLeq(a, b) == a.num * b.den <= b.num * a.den

\* _calculate_metrics, up to the status: the columns added to an item.
calculate_metrics(row, include_safety) ==
    LET available_supply ==
            IF include_safety /\ "safety_stock_qty" \in DOMAIN row
            THEN Max0(row.total_supply - row.safety_stock_qty)
            ELSE row.total_supply
        net_gap == available_supply - row.total_demand
    IN  row @@
        [available_supply |-> available_supply,
         net_gap |-> net_gap,
         true_gap |-> row.total_supply - row.total_demand,
         coverage_ratio |->
             IF row.total_demand > 0
             THEN Fraction(available_supply, row.total_demand) ELSE NaN]

\* The status of an item whose coverage is a number.
status_of(net_gap, coverage) ==
    IF net_gap < 0
    THEN (IF FracLess(coverage, shortage_thresholds.critical) THEN "CRITICAL_SHORTAGE"
          ELSE IF FracLess(coverage, shortage_thresholds.severe) THEN "SEVERE_SHORTAGE"
          ELSE IF FracLess(coverage, shortage_thresholds.high) THEN "HIGH_SHORTAGE"
          ELSE IF FracLess(coverage, shortage_thresholds.moderate) THEN "MODERATE_SHORTAGE"
          ELSE "LIGHT_SHORTAGE")
    ELSE IF net_gap = 0 THEN "BALANCED"
    ELSE (IF FracLeq(coverage, surplus_thresholds.light) THEN "LIGHT_SURPLUS"
          ELSE IF FracLeq(coverage, surplus_thresholds.moderate) THEN "MODERATE_SURPLUS"
          ELSE IF FracLeq(coverage, surplus_thresholds.high) THEN "HIGH_SURPLUS"
          ELSE "SEVERE_SURPLUS")

\* A bug to compare with: the group taken from the gap that ignores the
\* safety stock.
classify_status_by_true_gap(row, include_safety) ==
    LET coverage == IF row.coverage_ratio = NaN
                    THEN (IF row.true_gap < 0 THEN Fraction(0, 1) ELSE Fraction(1, 1))
                    ELSE row.coverage_ratio
    IN  IF row.total_demand = 0
        THEN (IF row.total_supply > 0 THEN "NO_DEMAND" ELSE "NO_ACTIVITY")
        ELSE status_of(row.true_gap, coverage)

classify_status_v45(row, include_safety) ==
    LET coverage == IF row.coverage_ratio = NaN
                    THEN (IF row.net_gap < 0 THEN Fraction(0, 1) ELSE Fraction(1, 1))
                    ELSE row.coverage_ratio
    IN  IF row.total_demand = 0
        THEN (IF row.total_supply > 0 THEN "NO_DEMAND" ELSE "NO_ACTIVITY")
        ELSE status_of(row.net_gap, coverage)

\* An item of the merged frame, with its safety stock when that is
\* included.
InitNet ==
    /\ include_safety_stock \in BOOLEAN
    /\ \E supply \in 0..MaxNetQty, demand \in 0..MaxNetQty,
          safety \in 0..MaxNetQty :
          net_row = IF include_safety_stock
                    THEN [total_supply |-> supply, total_demand |-> demand,
                          safety_stock_qty |-> safety]
                    ELSE [total_supply |-> supply, total_demand |-> demand]
    /\ pc = "merged"
    /\ IdleEngine
    /\ IdleGapState
    /\ IdlePage

\* _calculate_metrics: the gaps and the coverage of the item.
CalculateMetrics ==
    /\ pc = "merged"
    /\ net_row' = calculate_metrics(net_row, include_safety_stock)
    /\ pc' = "metrics"
    /\ UNCHANGED << period_type, include_safety_stock >>
    /\ UNCHANGED << engine_state, key_state, analysis_state >>
    /\ UNCHANGED << gap_state, page_state >>

\* _calculate_metrics: gap_status of the item.
ClassifyStatus ==
    /\ pc = "metrics"
    /\ net_row' = net_row @@
          [gap_status |-> classify_status_v45(net_row, include_safety_stock)]
    /\ pc' = "classified"
    /\ UNCHANGED << period_type, include_safety_stock >>
    /\ UNCHANGED << engine_state, key_state, analysis_state >>
    /\ UNCHANGED << gap_state, page_state >>

NextNet ==
    \/ CalculateMetrics
    \/ ClassifyStatus

NetSpec == InitNet /\ [][NextNet]_vars

\* ------------------------------------------------------------- GAPState

\* Largest page number of the result table.
MaxPage == 3

\* Another value for each field of the filters.
OtherFilterValue ==
    [entity |-> "E",
     exclude_entity |-> TRUE,
     products |-> << 1 >>,
     exclude_products |-> TRUE,
     brands |-> << "X" >>,
     exclude_brands |-> TRUE,
     exclude_expired |-> FALSE,
     group_by |-> "brand",
     supply_sources |-> << "INVENTORY" >>,
     demand_sources |-> << "OC_PENDING", "FORECAST" >>,
     include_safety |-> FALSE]

\* The filter dicts given to set_filters: the defaults, and the defaults
\* with another value in one field.
FilterValues ==
    { get_default_filters }
    \cup { [get_default_filters EXCEPT ![k] = OtherFilterValue[k]] :
             k \in DOMAIN get_default_filters }

\* The keys set_filters compares.
ComparedKeys ==
    { "entity", "products", "brands", "supply_sources", "demand_sources",
      "include_safety", "group_by", "exclude_expired" }

\* set_filters: whether the filters count as changed.
filters_changed(filters, current) ==
    \E key \in ComparedKeys : filters[key] # current[key]

\* The result of a calculation for the given filters.
ResultFor(filters) == << filters >>

InitGapState ==
    /\ IdleGapState
    /\ pc = "page"
    /\ IdleEngine
    /\ IdleNet
    /\ IdlePage

\* GAPState.set_filters(filters).
SetFilters ==
    /\ pc = "page"
    /\ \E filters \in FilterValues :
          /\ gap_filters' = filters
          /\ IF filters_changed(filters, gap_filters)
             THEN gap_result' = None /\ current_page' = 1
             ELSE UNCHANGED << gap_result, current_page >>
    /\ UNCHANGED << period_type, pc >>
    /\ UNCHANGED << engine_state, key_state, analysis_state >>
    /\ UNCHANGED << net_state, page_state >>

\* GAPState.set_result(result), with the result of a calculation for the
\* stored filters.
SetResult ==
    /\ pc = "page"
    /\ gap_result' = ResultFor(gap_filters)
    /\ UNCHANGED << gap_filters, current_page >>
    /\ UNCHANGED << period_type, pc >>
    /\ UNCHANGED << engine_state, key_state, analysis_state >>
    /\ UNCHANGED << net_state, page_state >>

\* GAPState.set_page(page, max_page).
SetPage ==
    /\ pc = "page"
    /\ \E page \in 0..(MaxPage + 1), max_page \in 1..MaxPage :
          current_page' = Max0(IF page < max_page THEN page - 1 ELSE max_page - 1) + 1
    /\ UNCHANGED << gap_filters, gap_result >>
    /\ UNCHANGED << period_type, pc >>
    /\ UNCHANGED << engine_state, key_state, analysis_state >>
    /\ UNCHANGED << net_state, page_state >>

NextGapState ==
    \/ SetFilters
    \/ SetResult
    \/ SetPage

GapStateSpec == InitGapState /\ [][NextGapState]_vars

\* ------------------------------------------------- the Period GAP page

\* The period type of the calculation options of the page.
PagePeriodType == "Weekly"

\* The tables the page loads: none; a demand and a supply for A; a
\* demand for A and B and a supply for A; a demand for A and a supply
\* for B. All lines are in one week.
PageInputs ==
    { << << >>, << >> >>,
      << << DemandLine(<< "A" >>, D1, 2) >>, << SupplyLine(<< "A" >>, D1, 1) >> >>,
      << << DemandLine(<< "A" >>, D1, 2), DemandLine(<< "B" >>, D1, 1) >>,
         << SupplyLine(<< "A" >>, D1, 1) >> >>,
      << << DemandLine(<< "A" >>, D1, 2) >>, << SupplyLine(<< "B" >>, D1, 3) >> >> }

PeriodFilters ==
    { "All", "Net Shortage", "Timing Shortage", "Net Surplus", "Timing Surplus" }

\* The rows of the products of a set.
RECURSIVE SelectIn(_, _)
SelectIn(rows, codes) ==
    IF rows = << >> THEN << >>
    ELSE (IF Head(rows).pt_code \in codes THEN << Head(rows) >> ELSE << >>)
         \o SelectIn(Tail(rows), codes)

\* apply_display_filters: the products of the selected product types.
products_to_show(filters, demand, supply) ==
    LET demand_products == { demand[i].pt_code : i \in 1..Len(demand) }
        supply_products == { supply[i].pt_code : i \in 1..Len(supply) }
    IN  (IF filters.show_matched
         THEN demand_products \cap supply_products ELSE {})
        \cup (IF filters.show_demand_only
              THEN demand_products \ supply_products ELSE {})
        \cup (IF filters.show_supply_only
              THEN supply_products \ demand_products ELSE {})

\* apply_display_filters: the filter by product type.
filter_by_product_type(gap, filters, demand, supply) ==
    IF ~(filters.show_matched /\ filters.show_demand_only
         /\ filters.show_supply_only)
       /\ products_to_show(filters, demand, supply) # {}
    THEN SelectIn(gap, products_to_show(filters, demand, supply))
    ELSE gap

\* apply_display_filters: the filter by period / status.
filter_by_period_filter(gap, period_filter) ==
    LET main_cats == categorize_main_category(gap)
        timing_cats == categorize_timing_issues(gap)
    IN  CASE period_filter = "Net Shortage" -> SelectIn(gap, main_cats.net_shortage)
          [] period_filter = "Timing Shortage" ->
                SelectIn(gap, timing_cats.timing_shortage)
          [] period_filter = "Net Surplus" -> SelectIn(gap, main_cats.net_surplus)
          [] period_filter = "Timing Surplus" ->
                SelectIn(gap, timing_cats.timing_surplus)
          [] OTHER -> gap

\* apply_display_filters: the frames it may return.
apply_display_filters(gap, filters, demand, supply, stored_calc_options) ==
    LET by_type == filter_by_product_type(gap, filters, demand, supply)
        by_period == filter_by_period_filter(by_type, filters.period_filter)
    IN  IF by_period = << >> THEN { << >> }
        ELSE SortByProductPeriod(by_period, stored_calc_options.period_type)

\* The cache key of a saved state: the options, the sizes of the tables
\* and a hash of each, taken as one that tells any two tables apart.
cache_key_of(state) ==
    [period_type |-> state.calc_options.period_type,
     track_backlog |-> state.calc_options.track_backlog,
     demand_count |-> Len(state.demand),
     supply_count |-> Len(state.supply),
     demand_hash |-> Some(state.demand),
     supply_hash |-> Some(state.supply)]

InitPage ==
    /\ IdlePage
    /\ pc = "page"
    /\ IdleEngine
    /\ IdleNet
    /\ IdleGapState

\* The display filters the widgets of a run give.
DisplayFilters(calc_options) ==
    { [show_matched |-> shown[1], show_demand_only |-> shown[2],
       show_supply_only |-> shown[3], period_filter |-> period_filter,
       period_type |-> calc_options.period_type,
       track_backlog |-> calc_options.track_backlog] :
        shown \in [1..3 -> BOOLEAN], period_filter \in PeriodFilters }

\* The display part of a run of main, for the run's gap_df: the display
\* filters read, applied to the rows, and the result shown when rows are
\* left.
ShowResults(gap, calc_options, state) ==
    /\ page_gap_df' = Some(gap)
    /\ \E filters \in DisplayFilters(calc_options) :
          /\ display_filters' = filters
          /\ IF gap # << >>
             THEN \E filtered \in
                       apply_display_filters(gap, filters, state.demand,
                                             state.supply, state.calc_options) :
                    /\ gap_df_filtered' = Some(filtered)
                    /\ displayed' = (filtered # << >>)
             ELSE gap_df_filtered' = None /\ displayed' = FALSE

\* One run of main: with or without a click on Calculate, for the tables
\* the data filters give, the calculation options and the display
\* filters of the widgets.
RunPage ==
    /\ pc = "page"
    /\ \E calculate_button \in BOOLEAN, inp \in PageInputs, track \in BOOLEAN :
        LET calc_options ==
                [period_type |-> PagePeriodType, track_backlog |-> track]
            saved ==
                IF calculate_button
                THEN Some([demand |-> inp[1], supply |-> inp[2],
                           calc_options |-> calc_options])
                ELSE period_gap_analysis_data
            result_after_click ==
                IF calculate_button THEN None ELSE gap_analysis_result
        IN  /\ period_gap_analysis_data' = saved
            /\ IF saved = None
               THEN /\ gap_analysis_result' = result_after_click
                    /\ page_gap_df' = None
                    /\ gap_df_filtered' = None
                    /\ displayed' = FALSE
                    /\ UNCHANGED << pgap_gap_df, pgap_result_cache_key,
                                    display_filters >>
               ELSE IF pgap_result_cache_key # Some(cache_key_of(saved[1]))
               THEN \E gap \in calculate_gap_with_carry_forward(
                                   saved[1].demand, saved[1].supply,
                                   saved[1].calc_options.period_type,
                                   saved[1].calc_options.track_backlog) :
                      /\ pgap_gap_df' = Some(gap)
                      /\ pgap_result_cache_key' = Some(cache_key_of(saved[1]))
                      /\ gap_analysis_result' = Some(gap)
                      /\ ShowResults(gap, calc_options, saved[1])
               ELSE /\ gap_analysis_result' = result_after_click
                    /\ UNCHANGED << pgap_gap_df, pgap_result_cache_key >>
                    /\ ShowResults(pgap_gap_df[1], calc_options, saved[1])
    /\ UNCHANGED << period_type, pc >>
    /\ UNCHANGED << engine_state, key_state, analysis_state >>
    /\ UNCHANGED << net_state, gap_state >>

NextPage == RunPage

PageSpec == InitPage /\ [][NextPage]_vars

\* ------------------------------------------- the period key functions

\* Days on both sides of three turns of the year: 2020 has 53 ISO weeks,
\* 2024 ends in week 1 of 2025, 2026 ends on a Thursday.
KeyDates ==
    UNION { { Date(y, 12, d) : d \in 22..31 } \cup { Date(y + 1, 1, d) : d \in 1..10 } :
            y \in {2020, 2024, 2026} }
    \cup {D3, D4}

ReferenceDates == { Date(2021, 1, 4), Date(2025, 1, 1), Date(2025, 3, 15) }

\* Keys that are no week of any year: no separator, no prefix, a week
\* that is no number or outside 1..53, a year that is no number or no year
\* of the calendar, a part too many.
MalformedWeekKeys ==
    { << >>,
      << "W", "e", "e", "k" >>,
      << "W", "e", "e", "k", " ", "5", " ", "2", "0", "2", "4" >>,
      << "5", " ", "-", " ", "2", "0", "2", "4" >>,
      << "W", "e", "e", "k", " ", "x", " ", "-", " ", "2", "0", "2", "4" >>,
      << "W", "e", "e", "k", " ", "0", " ", "-", " ", "2", "0", "2", "4" >>,
      << "W", "e", "e", "k", " ", "5", "4", " ", "-", " ", "2", "0", "2", "4" >>,
      << "W", "e", "e", "k", " ", "-", "5", " ", "-", " ", "2", "0", "2", "4" >>,
      << "W", "e", "e", "k", " ", "5", " ", "-", " ", "x" >>,
      << "W", "e", "e", "k", " ", "5", " ", "-", " ", "0" >>,
      << "W", "e", "e", "k", " ", "5", " ", "-", " ", "-", "1" >>,
      << "W", "e", "e", "k", " ", "5", " ", "-", " ", "2", "0", "2", "4", " ", "-", " ", "1" >>,
      << "J", "a", "n", " ", "2", "0", "2", "5" >>,
      << "2", "0", "2", "5", "-", "0", "1", "-", "0", "6" >> }

\* Keys that are no month of any year pd.Timestamp holds: no year, no
\* month name, a year of three digits or out of bounds, a week, a day.
MalformedMonthKeys ==
    { << >>,
      << "J", "a", "n" >>,
      << "J", "a", "n", " ", "2", "0", "2" >>,
      << "J", "a", "n", "-", "2", "0", "2", "5" >>,
      << "F", "o", "o", " ", "2", "0", "2", "5" >>,
      << "J", "a", "n", " ", "0", "0", "0", "0" >>,
      << "J", "a", "n", " ", "1", "5", "0", "0" >>,
      << "M", "a", "y", " ", "2", "2", "6", "2" >>,
      << "J", "a", "n", " ", "x", "x", "x", "x" >>,
      << "W", "e", "e", "k", " ", "5", " ", "-", " ", "2", "0", "2", "4" >>,
      << "2", "0", "2", "5", "-", "0", "1", "-", "0", "6" >> }

\* The same keys with blanks around them, which the parsers strip.
Padded(keys) == keys \cup { << " " >> \o k \o << " " >> : k \in keys \ {NoPeriod} }

GivenKeys == Padded(MalformedWeekKeys \cup MalformedMonthKeys)

\* A date to convert, or a key to parse as it is given.
InitKeys ==
    /\ period_type \in PeriodTypes
    /\ \/ date_value \in KeyDates /\ period_str = NoPeriod /\ pc = "date"
       \/ date_value = NaT /\ period_str \in GivenKeys /\ pc = "key"
    /\ reference_date \in ReferenceDates
    /\ week_key = WeekSentinel
    /\ month_key = TimestampMax
    /\ past = FALSE
    /\ track_backlog = FALSE
    /\ df_demand = << >>
    /\ df_supply = << >>
    /\ raised = "none"
    /\ period_data = << >>
    /\ products = << >>
    /\ product = << >>
    /\ product_data = << >>
    /\ idx = 0
    /\ carry_forward = 0
    /\ backlog = 0
    /\ results = << >>
    /\ gap_df = << >>
    /\ categorization = NoCategorization
    /\ InitAnalysis
    /\ InitOutside

\* convert_to_period(date_value, period_type).
ConvertToPeriod ==
    /\ pc = "date"
    /\ period_str' = convert_to_period(date_value, period_type)
    /\ pc' = "key"
    /\ UNCHANGED << period_type, date_value, reference_date, week_key,
                    month_key, past >>
    /\ UNCHANGED engine_state
    /\ UNCHANGED analysis_state
    /\ UNCHANGED outside_state

\* The parsers and is_past_period on the key.
ParsePeriod ==
    /\ pc = "key"
    /\ week_key' = parse_week_period(period_str)
    /\ month_key' = parse_month_period(period_str)
    /\ past' = is_past_period(period_str, period_type, reference_date)
    /\ pc' = "parsed"
    /\ UNCHANGED << period_type, date_value, period_str, reference_date >>
    /\ UNCHANGED engine_state
    /\ UNCHANGED analysis_state
    /\ UNCHANGED outside_state

NextKeys ==
    \/ ConvertToPeriod
    \/ ParsePeriod

KeySpec == InitKeys /\ [][NextKeys]_vars

\* ------------------------------------------------------------ the claims

\* Some period of the current product has been processed, so that the
\* tracking variables are those it left.
AfterPeriod == idx >= 1 /\ results # << >>

LastRow == results[Len(results)]

\* Rows i and i + 1 of a frame belong to one product.
Consecutive(rows, i) ==
    i \in 1..(Len(rows) - 1) /\ rows[i].pt_code = rows[i + 1].pt_code

\* Row i of a frame is the first of its product.
FirstOfProduct(rows, i) ==
    i \in 1..Len(rows) /\ (i = 1 \/ rows[i - 1].pt_code # rows[i].pt_code)

\* C1: in both modes and at every point of the fold, carry_forward >= 0,
\* backlog >= 0 and at most one of them is non-zero; so no emitted row
\* began its period with both a positive begin_inventory and a positive
\* inherited backlog.
C1_StateExclusivity ==
    /\ carry_forward >= 0
    /\ backlog >= 0
    /\ ~(carry_forward > 0 /\ backlog > 0)
    /\ \A i \in 1..Len(results) :
          /\ results[i].begin_inventory >= 0
          /\ track_backlog =>
                /\ results[i].backlog_qty >= 0
                /\ results[i].backlog_to_next >= 0
                /\ ~(results[i].begin_inventory > 0 /\ results[i].backlog_qty > 0)

\* A period that began with inventory ended in a shortage: the carry
\* forward was cleared and a backlog set.
C1_Witness ==
    /\ track_backlog
    /\ AfterPeriod
    /\ LastRow.begin_inventory > 0
    /\ LastRow.gap_quantity < 0
    /\ backlog > 0
    /\ carry_forward = 0

\* C2: in backlog mode every emitted row has effective_demand =
\* total_demand_qty + backlog_qty, total_available = supply_in_period +
\* begin_inventory and gap_quantity = total_available - effective_demand;
\* its backlog_to_next is |gap| for a negative gap and 0 otherwise; and
\* the tracking variables after the row are (gap, 0) for gap >= 0 and
\* (0, |gap|) for gap < 0.
C2_BacklogRow ==
    track_backlog =>
      /\ \A i \in 1..Len(results) :
            LET r == results[i]
            IN  /\ r.effective_demand = r.total_demand_qty + r.backlog_qty
                /\ r.total_available = r.supply_in_period + r.begin_inventory
                /\ r.gap_quantity = r.total_available - r.effective_demand
                /\ r.backlog_to_next =
                      (IF r.gap_quantity >= 0 THEN 0 ELSE -r.gap_quantity)
      /\ AfterPeriod =>
            /\ LastRow.gap_quantity >= 0 =>
                  carry_forward = LastRow.gap_quantity /\ backlog = 0
            /\ LastRow.gap_quantity < 0 =>
                  carry_forward = 0 /\ backlog = -LastRow.gap_quantity
            /\ LastRow.backlog_to_next = backlog

\* A row that inherited a backlog and cleared it with a surplus.
C2_Witness ==
    /\ track_backlog
    /\ AfterPeriod
    /\ LastRow.backlog_qty > 0
    /\ LastRow.total_demand_qty > 0
    /\ LastRow.gap_quantity > 0
    /\ carry_forward = LastRow.gap_quantity
    /\ backlog = 0

\* The rows of a frame are chained product by product: a product's first
\* row begins with nothing, a later row with what the row before it left.
Chained(rows) ==
    \A i \in 1..Len(rows) :
       /\ FirstOfProduct(rows, i) =>
             /\ rows[i].begin_inventory = 0
             /\ track_backlog => rows[i].backlog_qty = 0
       /\ Consecutive(rows, i) =>
             /\ rows[i + 1].begin_inventory = Max0(rows[i].gap_quantity)
             /\ track_backlog =>
                   rows[i + 1].backlog_qty = rows[i].backlog_to_next

\* C3: the first row of each product has begin_inventory = 0 (and
\* backlog_qty = 0 in backlog mode); every later row of the product has
\* begin_inventory = max(0, gap_quantity of the row before) and, in backlog
\* mode, backlog_qty = backlog_to_next of the row before. This holds of the
\* rows as they are emitted and of the returned frame.
C3_Chaining == Chained(results) /\ Chained(gap_df)

\* A returned frame in which a row inherits a backlog and a row inherits
\* inventory.
C3_Witness ==
    /\ pc = "done"
    /\ track_backlog
    /\ \E i \in 1..Len(gap_df) :
          Consecutive(gap_df, i) /\ gap_df[i + 1].backlog_qty > 0
    /\ \E i \in 1..Len(gap_df) :
          Consecutive(gap_df, i) /\ gap_df[i + 1].begin_inventory > 0

\* C4: in independent-period mode every row has total_available =
\* supply_in_period + begin_inventory and gap_quantity = total_available -
\* total_demand_qty, the carry forward after it is max(0, gap), and there
\* is no backlog: the rows carry no backlog column, the backlog variable
\* stays 0, and a row that follows a shortage row of its product has
\* gap_quantity = its own supply - its own demand.
C4_IndependentRow ==
    ~track_backlog =>
      /\ backlog = 0
      /\ \A i \in 1..Len(results) :
            LET r == results[i]
            IN  /\ r.total_available = r.supply_in_period + r.begin_inventory
                /\ r.gap_quantity = r.total_available - r.total_demand_qty
                /\ DOMAIN r \cap {"backlog_qty", "effective_demand", "backlog_to_next"} = {}
                /\ (Consecutive(results, i) /\ r.gap_quantity < 0) =>
                      results[i + 1].gap_quantity =
                         results[i + 1].supply_in_period
                         - results[i + 1].total_demand_qty
      /\ AfterPeriod => carry_forward = Max0(LastRow.gap_quantity)

\* The second week of the example after the first week's shortfall:
\* supply 100 and demand 50 give a gap of +50.
C4_Witness ==
    /\ ~track_backlog
    /\ AfterPeriod
    /\ Len(results) = 2
    /\ results[1].total_demand_qty = 100
    /\ results[1].supply_in_period = 60
    /\ results[1].gap_quantity = -40
    /\ results[2].total_demand_qty = 50
    /\ results[2].supply_in_period = 100
    /\ results[2].gap_quantity = 50
    /\ carry_forward = 50

\* The input of the backlog example: week 1 demand 100 / supply 60, week 2
\* demand 50 / supply 100.
BacklogExample ==
    /\ df_demand = << DemandLine(<< "A" >>, D1, 100), DemandLine(<< "A" >>, D2, 50) >>
    /\ df_supply = << SupplyLine(<< "A" >>, D1, 60), SupplyLine(<< "A" >>, D2, 100) >>

Returned == pc \in {"done", "categorized"}

\* C5: Weekly, backlog mode, week 1 demand 100 / supply 60 and week 2
\* demand 50 / supply 100: the first row has gap -40, backlog_to_next 40
\* and fulfillment 60%; the second has effective_demand 90,
\* total_available 100, gap +10, backlog_to_next 0 and fulfillment 100%,
\* and 10 is carried forward.
C5_BacklogExample ==
    (period_type = "Weekly" /\ track_backlog /\ BacklogExample /\ Returned) =>
      /\ Len(gap_df) = 2
      /\ gap_df[1].total_demand_qty = 100
      /\ gap_df[1].supply_in_period = 60
      /\ gap_df[1].gap_quantity = -40
      /\ gap_df[1].backlog_to_next = 40
      /\ gap_df[1].fulfillment_rate_percent = [num |-> 60, den |-> 1]
      /\ gap_df[2].total_demand_qty = 50
      /\ gap_df[2].supply_in_period = 100
      /\ gap_df[2].effective_demand = 90
      /\ gap_df[2].total_available = 100
      /\ gap_df[2].gap_quantity = 10
      /\ gap_df[2].backlog_to_next = 0
      /\ gap_df[2].fulfillment_rate_percent = [num |-> 100, den |-> 1]
      /\ carry_forward = 10
      /\ backlog = 0

\* The engine has returned the rows of the example.
C5_Witness ==
    /\ period_type = "Weekly"
    /\ track_backlog
    /\ BacklogExample
    /\ pc = "done"
    /\ Len(gap_df) = 2
    /\ gap_df[2].backlog_qty = 40

\* The dates of the input lines.
InputDates ==
    ({ df_demand[i].demand_date : i \in 1..Len(df_demand) }
     \cup { df_supply[i].date : i \in 1..Len(df_supply) }) \ {NaT}

\* The period and the day number of every input date.
DatedPeriods ==
    { << convert_to_period(d, period_type), DateRank(d) >> : d \in InputDates }

\* Period p lies before period q in time: p holds an input date that is
\* before an input date of q (periods are disjoint intervals of days).
ChronoBefore(dated, p, q) ==
    /\ p # q
    /\ \E a, b \in dated : a[1] = p /\ b[1] = q /\ a[2] < b[2]

Week52of2024 == << "W", "e", "e", "k", " ", "5", "2", " ", "-", " ", "2", "0", "2", "4" >>

Week2of2025 == << "W", "e", "e", "k", " ", "2", " ", "-", " ", "2", "0", "2", "5" >>

Week9of2025 == << "W", "e", "e", "k", " ", "9", " ", "-", " ", "2", "0", "2", "5" >>

Week10of2025 == << "W", "e", "e", "k", " ", "1", "0", " ", "-", " ", "2", "0", "2", "5" >>

\* Position of a product's row for a period in a frame (0: none).
RowAt(rows, p, period) ==
    IF \E i \in 1..Len(rows) : rows[i].pt_code = p /\ rows[i].period = period
    THEN CHOOSE i \in 1..Len(rows) : rows[i].pt_code = p /\ rows[i].period = period
    ELSE 0

\* C6: whatever the order of the merged rows, the rows of a product are
\* folded in strictly ascending order of time, not of the text of the key:
\* 'Week 2 - 2025' after 'Week 52 - 2024', 'Week 10 - 2025' after
\* 'Week 9 - 2025'.
C6_FoldOrder ==
    /\ LET dated == DatedPeriods
       IN  \A i, j \in 1..Len(results) :
              (i < j /\ results[i].pt_code = results[j].pt_code) =>
                 ChronoBefore(dated, results[i].period, results[j].period)
    /\ \A p \in PtCodes :
          /\ (RowAt(results, p, Week52of2024) > 0 /\ RowAt(results, p, Week2of2025) > 0) =>
                RowAt(results, p, Week52of2024) < RowAt(results, p, Week2of2025)
          /\ (RowAt(results, p, Week9of2025) > 0 /\ RowAt(results, p, Week10of2025) > 0) =>
                RowAt(results, p, Week9of2025) < RowAt(results, p, Week10of2025)

\* The merged rows arrived with week 10 of 2025 before week 9 and week 2,
\* and the fold took them as week 2, week 9, week 10.
C6_Witness ==
    /\ period_type = "Weekly"
    /\ pc = "sort"
    /\ RowAt(period_data, << "A" >>, Week10of2025) = 1
    /\ RowAt(period_data, << "A" >>, Week9of2025) = 2
    /\ RowAt(period_data, << "A" >>, Week2of2025) = 3
    /\ RowAt(results, << "A" >>, Week2of2025) = 1
    /\ RowAt(results, << "A" >>, Week9of2025) = 2
    /\ RowAt(results, << "A" >>, Week10of2025) = 3

\* The lines of one product.
RECURSIVE OnlyProduct(_, _)
OnlyProduct(df, p) ==
    IF df = << >> THEN << >>
    ELSE (IF Head(df).pt_code = p THEN << Head(df) >> ELSE << >>)
         \o OnlyProduct(Tail(df), p)

\* The fold of a product's sorted rows from a given state.
RECURSIVE Fold(_, _, _)
Fold(rows, cf, bl) ==
    IF rows = << >> THEN << >>
    ELSE LET step == period_step(track_backlog, Head(rows), cf, bl)
         IN  << step.row >> \o Fold(Tail(rows), step.carry_forward, step.backlog)

\* The rows the engine emits for a product given that product's lines
\* alone.
AloneRows(p) ==
    UNION { { Fold(sorted, 0, 0) : sorted \in SortByPeriod(merged, period_type) } :
            merged \in process_for_gap(OnlyProduct(df_demand, p),
                                       OnlyProduct(df_supply, p), period_type) }

\* C7: the rows emitted for a product are those the engine emits for that
\* product's lines alone, whichever products are processed with it and in
\* whichever order: nothing of one product's carry_forward or backlog
\* reaches another product's rows.
C7_ProductsIndependent ==
    pc = "done" =>
      \A p \in PtCodes :
         LET alone == AloneRows(p)
         IN  /\ SelectProduct(results, p) \in alone
             /\ SelectProduct(gap_df, p) \in alone

\* Two products were folded; the first left a carry forward or a backlog
\* behind, and the second began from nothing.
C7_Witness ==
    /\ pc = "done"
    /\ Cardinality(ProductsOf(gap_df)) = 2
    /\ results[1].gap_quantity # 0
    /\ \E i \in 2..Len(results) :
          /\ FirstOfProduct(results, i)
          /\ results[i].begin_inventory = 0
          /\ results[i].gap_quantity = results[i].supply_in_period - results[i].total_demand_qty
    /\ \E i \in 1..(Len(results) - 1) :
          /\ results[i].pt_code # results[i + 1].pt_code
          /\ results[i].gap_quantity # 0

Categorized == pc = "categorized"

MainCategories == {"net_shortage", "net_surplus", "balanced"}

\* The main categories that hold a product.
MainOf(p) == { c \in MainCategories : p \in categorization[c] }

\* The gap_quantity column of a frame.
RECURSIVE GapsOf(_)
GapsOf(rows) ==
    IF rows = << >> THEN << >>
    ELSE << Head(rows).gap_quantity >> \o GapsOf(Tail(rows))

\* C8: categorize_main_category puts every product of the GAP rows in
\* exactly one of net_shortage, net_surplus, balanced, by S = the sum of
\* supply_in_period and D = the sum of total_demand_qty of its rows alone:
\* S < D net_shortage, S > D net_surplus, S = D balanced; two products with
\* the same S and D have the same category whatever their gap_quantity
\* values are.
C8_MainCategory ==
    Categorized =>
      /\ \A c \in MainCategories : categorization[c] \subseteq ProductsOf(gap_df)
      /\ \A p \in ProductsOf(gap_df) :
            LET S == SumSupply(SelectProduct(gap_df, p))
                D == SumDemand(SelectProduct(gap_df, p))
            IN  /\ Cardinality(MainOf(p)) = 1
                /\ S < D <=> p \in categorization.net_shortage
                /\ S > D <=> p \in categorization.net_surplus
                /\ S = D <=> p \in categorization.balanced
      /\ \A p, q \in ProductsOf(gap_df) :
            (/\ SumSupply(SelectProduct(gap_df, p)) = SumSupply(SelectProduct(gap_df, q))
             /\ SumDemand(SelectProduct(gap_df, p)) = SumDemand(SelectProduct(gap_df, q)))
            => MainOf(p) = MainOf(q)

\* Two products with the same totals and different period gaps, one with
\* a shortage period and one with a surplus period, in the same category.
C8_Witness ==
    /\ Categorized
    /\ \E p, q \in ProductsOf(gap_df) :
          /\ p # q
          /\ SumSupply(SelectProduct(gap_df, p)) = SumSupply(SelectProduct(gap_df, q))
          /\ SumDemand(SelectProduct(gap_df, p)) = SumDemand(SelectProduct(gap_df, q))
          /\ SumDemand(SelectProduct(gap_df, p)) > 0
          /\ GapsOf(SelectProduct(gap_df, p)) # GapsOf(SelectProduct(gap_df, q))
          /\ SumGap(SelectProduct(gap_df, p)) < 0
          /\ SumGap(SelectProduct(gap_df, q)) > 0
          /\ MainOf(p) = {"balanced"}
          /\ MainOf(q) = {"balanced"}

\* C9: timing_shortage holds exactly the products with a row of
\* gap_quantity < 0 and timing_surplus exactly those with a row of
\* gap_quantity > 0; a product whose rows all have gap_quantity = 0 has
\* neither flag, whatever its totals.
C9_TimingFlags ==
    Categorized =>
      /\ categorization.timing_shortage =
            { p \in ProductsOf(gap_df) :
                \E i \in 1..Len(gap_df) :
                   gap_df[i].pt_code = p /\ gap_df[i].gap_quantity < 0 }
      /\ categorization.timing_surplus =
            { p \in ProductsOf(gap_df) :
                \E i \in 1..Len(gap_df) :
                   gap_df[i].pt_code = p /\ gap_df[i].gap_quantity > 0 }
      /\ \A p \in ProductsOf(gap_df) :
            (\A i \in 1..Len(gap_df) :
                gap_df[i].pt_code = p => gap_df[i].gap_quantity = 0)
            => /\ p \notin categorization.timing_shortage
               /\ p \notin categorization.timing_surplus

\* A product with demand and supply whose every row breaks even has
\* neither flag.
C9_Witness ==
    /\ Categorized
    /\ \E p \in ProductsOf(gap_df) :
          /\ SumDemand(SelectProduct(gap_df, p)) > 0
          /\ \A i \in 1..Len(gap_df) :
                gap_df[i].pt_code = p => gap_df[i].gap_quantity = 0
          /\ p \notin categorization.timing_shortage
          /\ p \notin categorization.timing_surplus

\* The input of the timing example: supply - demand is +10, -5, +10 over
\* three periods.
TimingExample ==
    /\ df_demand = << DemandLine(<< "A" >>, D2, 0), DemandLine(<< "A" >>, D3, 5),
                      DemandLine(<< "A" >>, D4, 0) >>
    /\ df_supply = << SupplyLine(<< "A" >>, D2, 10), SupplyLine(<< "A" >>, D3, 0),
                      SupplyLine(<< "A" >>, D4, 10) >>

\* C10 as stated: period deltas [+10, -5, +10] give timing_shortage,
\* timing_surplus and main category net_surplus.
C10_AsStated ==
    (Categorized /\ TimingExample) =>
      /\ << "A" >> \in categorization.timing_shortage
      /\ << "A" >> \in categorization.timing_surplus
      /\ << "A" >> \in categorization.net_surplus

\* C10, amended: with period deltas [+10, -5, +10] the +10 carried forward
\* covers the -5, the rows have gap_quantity [+10, +5, +15] in both modes,
\* and the product has timing_surplus, not timing_shortage, and main
\* category net_surplus (sum = +15).
C10_TimingExample ==
    (Categorized /\ TimingExample) =>
      /\ GapsOf(gap_df) = << 10, 5, 15 >>
      /\ << "A" >> \notin categorization.timing_shortage
      /\ << "A" >> \in categorization.timing_surplus
      /\ MainOf(<< "A" >>) = {"net_surplus"}
      /\ SumSupply(gap_df) - SumDemand(gap_df) = 15

\* The example has been folded and categorized.
C10_Witness ==
    /\ Categorized
    /\ TimingExample
    /\ Len(gap_df) = 3
    /\ gap_df[2].supply_in_period - gap_df[2].total_demand_qty = -5
    /\ gap_df[2].begin_inventory = 10

\* The main category and the timing flags of product A in a frame.
FlagsOfA(frame) ==
    LET cats == categorize_products(frame)
    IN  << CHOOSE c \in MainCategories : << "A" >> \in cats[c],
           << "A" >> \in cats.timing_shortage,
           << "A" >> \in cats.timing_surplus >>

\* The combinations of a main category and timing flags that occur: those
\* the inputs of the timing example family give product A, in either mode.
PossibleFlags ==
    UNION { { FlagsOfA(frame) :
                frame \in EngineFrames(x[1][1], x[1][2], "Weekly", x[2]) } :
            x \in TimingExampleInputs \X BOOLEAN }

\* C11 as stated: the main category of a product is one that occurs with
\* both timing flags and also with neither; so for each of the three.
C11_AsStated ==
    Categorized =>
      \A p \in ProductsOf(gap_df) :
         \A c \in MainOf(p) :
            /\ << c, TRUE, TRUE >> \in PossibleFlags
            /\ << c, FALSE, FALSE >> \in PossibleFlags

\* An input of the timing example family: the demand and the supply of
\* product A in three consecutive periods.
TimingInput(d, s) ==
    /\ df_demand = << DemandLine(<< "A" >>, D2, d[1]), DemandLine(<< "A" >>, D3, d[2]),
                      DemandLine(<< "A" >>, D4, d[3]) >>
    /\ df_supply = << SupplyLine(<< "A" >>, D2, s[1]), SupplyLine(<< "A" >>, D3, s[2]),
                      SupplyLine(<< "A" >>, D4, s[3]) >>

\* Product A is in a main category with given timing flags.
FlagsAre(c, shortage, surplus) ==
    /\ MainOf(<< "A" >>) = {c}
    /\ (<< "A" >> \in categorization.timing_shortage) = shortage
    /\ (<< "A" >> \in categorization.timing_surplus) = surplus

\* C11, amended: each main category occurs with both timing flags (supply
\* 10, 0, 0 against demand 5, 5, 5 is a net shortage with both; supply
\* 0, 10, 0 against demand 5, 0, 0 a net surplus with both; supply 0, 10, 0
\* against demand 5, 0, 5 balanced with both); a product with neither flag
\* occurs too, and it is always balanced, because rows that all break even
\* have supply = demand in every period.
C11_TimingAndMain ==
    Categorized =>
      /\ TimingInput(<< 5, 5, 5 >>, << 10, 0, 0 >>) => FlagsAre("net_shortage", TRUE, TRUE)
      /\ TimingInput(<< 5, 0, 0 >>, << 0, 10, 0 >>) => FlagsAre("net_surplus", TRUE, TRUE)
      /\ TimingInput(<< 5, 0, 5 >>, << 0, 10, 0 >>) => FlagsAre("balanced", TRUE, TRUE)
      /\ TimingInput(<< 0, 0, 0 >>, << 0, 0, 0 >>) => FlagsAre("balanced", FALSE, FALSE)
      /\ \A p \in ProductsOf(gap_df) :
            (p \notin categorization.timing_shortage
             /\ p \notin categorization.timing_surplus)
            => MainOf(p) = {"balanced"}

\* The first example, categorized: a net shortage with a surplus period
\* before its shortage period.
C11_Witness ==
    /\ Categorized
    /\ TimingInput(<< 5, 5, 5 >>, << 10, 0, 0 >>)
    /\ FlagsAre("net_shortage", TRUE, TRUE)
    /\ gap_df[1].gap_quantity > 0
    /\ gap_df[3].gap_quantity < 0

\* C12: in backlog mode the fulfillment rate of every row is taken against
\* effective_demand = own demand + inherited backlog: min(100,
\* total_available / effective_demand * 100) when effective_demand > 0,
\* else 100 if total_available > 0 and 0 if total_available = 0; it lies
\* in [0, 100]. (The rate is the fraction num / den.)
C12_FulfillmentRate ==
    track_backlog =>
      \A i \in 1..Len(results) :
         LET r == results[i]
             rate == r.fulfillment_rate_percent
             effective == r.total_demand_qty + r.backlog_qty
         IN  /\ r.effective_demand = effective
             /\ rate.den > 0
             /\ 0 <= rate.num
             /\ rate.num <= 100 * rate.den
             /\ (effective > 0 /\ r.total_available < effective) =>
                   rate.num * effective = r.total_available * 100 * rate.den
             /\ (effective > 0 /\ r.total_available >= effective) =>
                   rate.num = 100 * rate.den
             /\ (effective <= 0 /\ r.total_available > 0) =>
                   rate.num = 100 * rate.den
             /\ (effective <= 0 /\ r.total_available = 0) => rate.num = 0

\* A row whose supply covers its own demand and not the inherited backlog
\* with it: 60 available against 50 + 40 is two thirds, not 100%.
C12_Witness ==
    /\ track_backlog
    /\ AfterPeriod
    /\ LastRow.backlog_qty = 40
    /\ LastRow.total_demand_qty = 50
    /\ LastRow.total_available = 60
    /\ LastRow.fulfillment_rate_percent = [num |-> 200, den |-> 3]

\* The engine is past the aggregation.
Aggregated == pc \notin {"start", "raised"}

\* The keys of the demand lines and of the supply lines that have one.
DemandKeys ==
    { << df_demand[i].pt_code, convert_to_period(df_demand[i].demand_date, period_type) >> :
        i \in 1..Len(df_demand) } \ (PtCodes \X {NoPeriod})

SupplyKeys ==
    { << df_supply[i].pt_code, convert_to_period(df_supply[i].date, period_type) >> :
        i \in 1..Len(df_supply) } \ (PtCodes \X {NoPeriod})

\* The total quantity of the demand lines, and of the supply lines, from
\* line n on that fall on a key.
RECURSIVE DemandOn(_, _)
DemandOn(key, n) ==
    IF n > Len(df_demand) THEN 0
    ELSE (IF << df_demand[n].pt_code,
                convert_to_period(df_demand[n].demand_date, period_type) >> = key
          THEN df_demand[n].demand_quantity ELSE 0)
         + DemandOn(key, n + 1)

RECURSIVE SupplyOn(_, _)
SupplyOn(key, n) ==
    IF n > Len(df_supply) THEN 0
    ELSE (IF << df_supply[n].pt_code,
                convert_to_period(df_supply[n].date, period_type) >> = key
          THEN df_supply[n].quantity ELSE 0)
         + SupplyOn(key, n + 1)

\* C13: the merged frame has exactly one row for every (product, period)
\* key of the demand lines or of the supply lines, none lost and none
\* twice; its demand_quantity is the sum of the demand lines of the key and
\* its supply_quantity the sum of the supply lines of the key, 0 where a
\* side has no line for it.
C13_MergedRows ==
    Aggregated =>
      /\ { << period_data[i].pt_code, period_data[i].period >> :
             i \in 1..Len(period_data) } = DemandKeys \cup SupplyKeys
      /\ Len(period_data) = Cardinality(DemandKeys \cup SupplyKeys)
      /\ \A i \in 1..Len(period_data) :
            LET key == << period_data[i].pt_code, period_data[i].period >>
            IN  /\ period_data[i].demand_quantity = DemandOn(key, 1)
                /\ period_data[i].supply_quantity = SupplyOn(key, 1)
                /\ key \notin DemandKeys => period_data[i].demand_quantity = 0
                /\ key \notin SupplyKeys => period_data[i].supply_quantity = 0

\* Two demand lines of one key summed to 3, and a key that only the supply
\* side has, with demand 0.
C13_Witness ==
    /\ pc = "product"
    /\ Len(period_data) = 2
    /\ \E i, j \in 1..2 :
          /\ period_data[i].pt_code = << "A" >>
          /\ period_data[i].demand_quantity = 3
          /\ period_data[i].supply_quantity = 0
          /\ period_data[j].pt_code = << "B" >>
          /\ period_data[j].demand_quantity = 0
          /\ period_data[j].supply_quantity = 1

\* The attribute values the lines of a product give that have a period.
DemandBrands(p) ==
    { df_demand[i].brand :
        i \in { j \in 1..Len(df_demand) :
                  /\ df_demand[j].pt_code = p
                  /\ df_demand[j].demand_date # NaT } } \ {NoBrand}

SupplyBrands(p) ==
    { df_supply[i].brand :
        i \in { j \in 1..Len(df_supply) :
                  /\ df_supply[j].pt_code = p
                  /\ df_supply[j].date # NaT } } \ {NoBrand}

\* C14: a descriptive attribute of a merged row is a demand-side value of
\* its product when the demand side provides one, otherwise a supply-side
\* value when the supply side provides one; a supply-only product carries
\* its supply-side attributes.
C14_AsStated ==
    Aggregated =>
      \A i \in 1..Len(period_data) :
         LET r == period_data[i]
         IN  IF DemandBrands(r.pt_code) # {} THEN r.brand \in DemandBrands(r.pt_code)
             ELSE IF SupplyBrands(r.pt_code) # {} THEN r.brand \in SupplyBrands(r.pt_code)
             ELSE r.brand = NoBrand

HasDemandDate(line) == line.demand_date # NaT

HasSupplyDate(line) == line.date # NaT

\* The call has ended, with a frame or with an exception.
Ended == pc \in {"done", "categorized", "raised"}

\* What the engine returns for the input without its lines that have no
\* valid date.
WithoutBadLines ==
    LET demand == SelectSeq(df_demand, HasDemandDate)
        supply == SelectSeq(df_supply, HasSupplyDate)
    IN  IF demand = << >> /\ supply = << >> THEN { << >> }
        ELSE EngineFrames(demand, supply, period_type, track_backlog)

\* C15: a line whose date is null or unparseable gets no period key and
\* only that line is dropped: the calculation completes, and returns what
\* it returns for the same input without the line.
C15_AsStated ==
    Ended => (raised = "none" /\ gap_df \in WithoutBadLines)

\* C16: with a period_type that is not Daily, Weekly or Monthly the call
\* ends with InputValidationError and emits no rows.
C16_AsStated ==
    (period_type \notin PeriodTypes /\ pc # "start") =>
      /\ pc = "raised"
      /\ raised = "InputValidationError"
      /\ results = << >>
      /\ gap_df = << >>

\* No line of the input has a period: both tables are empty, or every
\* line is dropped.
NoActivity == DemandKeys \cup SupplyKeys = {}

\* C17: valid input without any (product, period) activity ends the call
\* normally, with an empty frame and without an exception.
C17_AsStated ==
    (period_type \in PeriodTypes /\ NoActivity /\ pc # "start") =>
      /\ pc \in {"done", "categorized"}
      /\ raised = "none"
      /\ gap_df = << >>

\* C18: on a null or malformed key (a week outside 1..53 included)
\* parse_week_period returns (9999, 99) and parse_month_period
\* Timestamp.max, the sentinel sorts after the key of every date, and
\* is_past_period returns False.
C18_AsStated ==
    pc = "parsed" =>
      /\ period_str \in Padded(MalformedWeekKeys) => week_key = WeekSentinel
      /\ period_str \in Padded(MalformedMonthKeys) => month_key = TimestampMax
      /\ (period_type = "Weekly" /\ period_str \in Padded(MalformedWeekKeys)) =>
            past = FALSE
      /\ (period_type = "Monthly" /\ period_str \in Padded(MalformedMonthKeys)) =>
            past = FALSE
      /\ period_str = NoPeriod => past = FALSE
      /\ (period_type = "Weekly" /\ date_value # NaT) =>
            KeyLess(week_key, WeekSentinel)
      /\ (period_type = "Monthly" /\ date_value # NaT) => month_key < TimestampMax

\* The Thursday of the week (Monday to Sunday) of a date, as a day number.
ThursdayOf(dt) ==
    LET today == ToOrdinal(dt.y, dt.m, dt.d)
    IN  today - ((today + 6) % 7) + 3

\* The year of a day within a week of a date.
YearNear(ordinal, dt) ==
    IF ordinal < ToOrdinal(dt.y, 1, 1) THEN dt.y - 1
    ELSE IF ordinal >= ToOrdinal(dt.y + 1, 1, 1) THEN dt.y + 1
    ELSE dt.y

\* The ISO week of a date by ISO 8601: the year of the week's Thursday
\* and the number of that Thursday among the Thursdays of its year.
IsoWeekKey(dt) ==
    LET thursday == ThursdayOf(dt)
        year == YearNear(thursday, dt)
    IN  WeekPrefix \o IntToStr(((thursday - ToOrdinal(year, 1, 1)) \div 7) + 1)
        \o WeekSep \o IntToStr(year)

Week1of2025 == << "W", "e", "e", "k", " ", "1", " ", "-", " ", "2", "0", "2", "5" >>

\* C19: the Weekly key of a date is 'Week {ISO week} - {ISO year}': Dec 31,
\* 2024 gives 'Week 1 - 2025', and two dates of one week (Monday to
\* Sunday) get the same key, also across the turn of the year.
C19_IsoWeekKey ==
    (period_type = "Weekly" /\ date_value # NaT /\ pc # "date") =>
      /\ period_str = IsoWeekKey(date_value)
      /\ date_value = Date(2024, 12, 31) => period_str = Week1of2025
      /\ \A other \in KeyDates :
            ThursdayOf(other) = ThursdayOf(date_value) =>
               convert_to_period(other, period_type) = period_str

\* Dec 31, 2024 converted and its key parsed back to week 1 of 2025, the
\* week of Jan 1, 2025.
C19_Witness ==
    /\ pc = "parsed"
    /\ period_type = "Weekly"
    /\ date_value = Date(2024, 12, 31)
    /\ period_str = Week1of2025
    /\ week_key = << 2025, 1 >>
    /\ Date(2025, 1, 1) \in KeyDates
    /\ ThursdayOf(Date(2025, 1, 1)) = ThursdayOf(date_value)

\* The (product, period) keys of a frame.
KeysOf(rows) == { << rows[i].pt_code, rows[i].period >> : i \in 1..Len(rows) }

\* C20: the returned rows are sorted by product id and, within a product,
\* by period in ascending order of time, and there is exactly one row for
\* every (product, period) key of the merged data.
C20_ReturnedOrder ==
    (Returned /\ raised = "none") =>
      /\ \A i, j \in 1..Len(gap_df) :
            i < j =>
              /\ ~TextLess(gap_df[j].pt_code, gap_df[i].pt_code)
              /\ gap_df[i].pt_code = gap_df[j].pt_code =>
                    ChronoBefore(DatedPeriods, gap_df[i].period, gap_df[j].period)
      /\ KeysOf(gap_df) = KeysOf(period_data)
      /\ Len(gap_df) = Cardinality(KeysOf(period_data))

\* Product B was folded before product A; the returned rows have A first,
\* and week 52 of 2024 before week 2 of 2025.
C20_Witness ==
    /\ pc = "done"
    /\ period_type = "Weekly"
    /\ Len(gap_df) = 4
    /\ results[1].pt_code = << "B" >>
    /\ gap_df[1].pt_code = << "A" >>
    /\ gap_df[1].period = Week52of2024
    /\ gap_df[2].pt_code = << "A" >>
    /\ gap_df[2].period = Week2of2025
    /\ gap_df[3].pt_code = << "B" >>
    /\ gap_df[3].period = Week52of2024

\* C21: the returned rows are the same for every run on the same input and
\* options: whatever the order in which the set of (product, period) keys
\* was listed, and the products folded, the engine returns the one frame
\* that every run on this input returns.
C21_Determinism ==
    (pc = "done" /\ raised = "none" /\ period_data # << >>) =>
      EngineFrames(df_demand, df_supply, period_type, track_backlog) = { gap_df }

\* The keys were listed with product B first and, for product A, the
\* later period first; the rows are returned in order all the same.
C21_Witness ==
    /\ pc = "done"
    /\ period_type = "Monthly"
    /\ Len(period_data) = 4
    /\ period_data[1].pt_code = << "B" >>
    /\ \E i, j \in 1..4 :
          /\ i < j
          /\ period_data[i].pt_code = << "A" >>
          /\ period_data[j].pt_code = << "A" >>
          /\ parse_month_period(period_data[j].period)
                < parse_month_period(period_data[i].period)
    /\ gap_df[1].pt_code = << "A" >>
    /\ gap_df[1].gap_quantity # gap_df[2].gap_quantity

C23_AsStated ==
    (pc = "returned" /\ gap_df # << >> /\ SumDemand(gap_df) > 0) =>
      LET stated == capped_rate(SumSupply(gap_df), SumDemand(gap_df))
      IN  /\ metadata_fill_rate(gap_df) = stated
          /\ summary_supply_rate(gap_df, track_backlog) = stated

C25_AsStated ==
    gap_result # None => gap_result = ResultFor(gap_filters)

\* The product types of a product of the saved tables.
ProductTypeOf(p) ==
    LET state == period_gap_analysis_data[1]
        in_demand == \E i \in 1..Len(state.demand) : state.demand[i].pt_code = p
        in_supply == \E i \in 1..Len(state.supply) : state.supply[i].pt_code = p
    IN  IF in_demand /\ in_supply THEN "show_matched"
        ELSE IF in_demand THEN "show_demand_only"
        ELSE "show_supply_only"

\* C26: for every combination of the three flags, no row of a product of
\* an unselected product type is in the frame apply_display_filters
\* returns.
C26_AsStated ==
    gap_df_filtered # None =>
      \A i \in 1..Len(gap_df_filtered[1]) :
         display_filters[ProductTypeOf(gap_df_filtered[1][i].pt_code)]

\* C30: whenever a run ends with a GAP result displayed, the session key
\* gap_analysis_result holds that result, and not None.
C30_AsStated ==
    displayed => gap_analysis_result = page_gap_df

\* The rows of a frame up to row k that are of the product of row k.
SameProductUpTo(rows, k) == SelectProduct(SubSeq(rows, 1, k), rows[k].pt_code)

\* C27: in backlog mode the gap_quantity of a row is the sum of the
\* supply of the product's periods up to that row less the sum of their
\* demand; the gap of a product's last row is its total supply less its
\* total demand.
C27_CumulativeGap ==
    (pc = "done" /\ raised = "none" /\ track_backlog) =>
      /\ \A k \in 1..Len(gap_df) :
            gap_df[k].gap_quantity =
               SumSupply(SameProductUpTo(gap_df, k))
               - SumDemand(SameProductUpTo(gap_df, k))
      /\ \A p \in ProductsOf(gap_df) :
            LET product_df == SelectProduct(gap_df, p)
            IN  product_df[Len(product_df)].gap_quantity =
                  SumSupply(product_df) - SumDemand(product_df)

\* A product of two periods in backlog mode: a shortage in the first,
\* carried into the second, whose gap is not that of its own supply and
\* demand.
C27_Witness ==
    /\ pc = "done"
    /\ track_backlog
    /\ Len(gap_df) = 2
    /\ gap_df[1].pt_code = gap_df[2].pt_code
    /\ gap_df[1].gap_quantity < 0
    /\ gap_df[2].backlog_qty > 0
    /\ gap_df[2].gap_quantity # gap_df[2].supply_in_period - gap_df[2].total_demand_qty
    /\ gap_df[2].gap_quantity < 0

\* C28: calculate_order_requirements gives every product with a net
\* shortage an order quantity of its total demand less its total supply,
\* in either mode; in backlog mode the final backlog_to_next of such a
\* product is that same quantity.
C28_OrderQuantity ==
    (pc = "done" /\ raised = "none" /\ gap_df # << >>) =>
      \A order_df \in calculate_order_requirements(gap_df) :
        /\ { order_df[i].pt_code : i \in 1..Len(order_df) }
             = categorize_main_category(gap_df).net_shortage
        /\ \A i \in 1..Len(order_df) :
             LET product_df == SelectProduct(gap_df, order_df[i].pt_code)
                 net == SumDemand(product_df) - SumSupply(product_df)
             IN  /\ order_df[i].order_quantity = net
                 /\ track_backlog =>
                       product_df[Len(product_df)].backlog_to_next = Max0(net)

\* A product with a net shortage in backlog mode whose backlog was larger
\* after its first period than after its last.
C28_Witness ==
    /\ pc = "done"
    /\ track_backlog
    /\ Len(gap_df) = 2
    /\ gap_df[1].pt_code = gap_df[2].pt_code
    /\ gap_df[1].backlog_to_next > gap_df[2].backlog_to_next
    /\ gap_df[2].backlog_to_next > 0
    /\ \E order_df \in calculate_order_requirements(gap_df) :
          /\ Len(order_df) = 1
          /\ order_df[1].order_quantity = gap_df[2].backlog_to_next

\* C29: for rows of the backlog mode get_gap_summary_metrics reports a
\* peak_total_backlog that is at least total_backlog.
C29_AsStated ==
    (pc = "returned" /\ track_backlog /\ gap_df # << >>) =>
      LET metrics == get_gap_summary_metrics(gap_df, track_backlog)
      IN  metrics.peak_total_backlog >= metrics.total_backlog

====
